---- MODULE Spec2Model ----
(***************************************************************************)
(* A model of the scan-and-delete engine of `pure`: the exclusion-aware    *)
(* walks (discovery, sizing, deletion), the two-phase safe deletion, the   *)
(* scan orchestration and the run command.                                 *)
(*                                                                         *)
(* A path is the sequence of its components, <<>> being "/".  Roots are    *)
(* normalized, so a path value identifies one filesystem object.  The      *)
(* exclusion matcher is a set of path values (a glob set matches an        *)
(* arbitrary finite set of path strings).  How a root was spelled on the   *)
(* command line is kept next to it where PathBuf equality is used, which   *)
(* tells "/home/w/pkg", "./pkg" and "pkg" apart.                           *)
(***************************************************************************)
EXTENDS Integers, Sequences, FiniteSets, TLC

VARIABLES
    fs,        \* the filesystem: path -> "none" | "file" | "dir" | "link"
    excl,      \* the set of paths the compiled GlobSet matches
    denied,    \* paths whose removal fails with PermissionDenied
    items,     \* the ScanItem list handed to compute_sizes / delete_items
    task,      \* delete_items: one rayon task per item
    phase,     \* position of the caller
    round,     \* how many times delete_items has been called
    result,    \* what the last call of delete_items returned
    fsStart,   \* the filesystem when delete_items was (last) called
    rescan,    \* result of the repeat scan after deletion
    opts,      \* the options of the command: ScanOptions / RunOptions
    dockerEnv, \* how the docker CLI behaves
    sc,        \* the scan in progress: scan_categories / list_targets
    run,       \* execute_run: its position, selection, plan and docker branch
    faulty,    \* the scanners whose scan returns an error
    cfg,       \* the Config in memory and the configuration file
    built,     \* a ScanReport under construction and the calls that built it
    typed      \* a line typed at the category prompt and what was read from it

cmdVars == <<opts, dockerEnv, sc, run>>
unitVars == <<faulty, cfg, built, typed>>
engineVars == <<fs, excl, denied, items, task, phase, round, result, fsStart,
                rescan, opts, dockerEnv, sc, run>>
vars == <<fs, excl, denied, items, task, phase, round, result, fsStart, rescan,
          opts, dockerEnv, sc, run, faulty, cfg, built, typed>>

----------------------------------------------------------------------------
(* Bounds *)
MaxExcluded == 2      \* at most this many paths are matched by the glob set
MaxDenied == 1        \* at most this many paths refuse removal
MaxRounds == 2        \* delete_items is called at most this many times
MaxCalls == 3         \* add_items is called at most this many times on one report
MaxExcludeLen == 4    \* the exclude list of a Config holds at most this many patterns
SizeCap == 250        \* stands for u64::MAX, where sums saturate
MaxPieces == 5        \* a line typed at the category prompt has at most this many pieces

----------------------------------------------------------------------------
(* Paths *)

NM == "node_modules"
PYC == "__pycache__"
DD == "DerivedData"

Root == << >>                 \* "/"
H == <<"home">>               \* the home directory
W == <<"home", "w">>          \* a workspace in it
PKG == W \o <<"pkg">>         \* a Swift package in the workspace
LIB == H \o <<"Library">>

\* A chain of directories d/d/.../d of k levels below the workspace.
RECURSIVE Deep(_)
Deep(k) == IF k = 0 THEN W ELSE Deep(k - 1) \o <<"d">>

\* The chain down to level 10, with a node_modules in level 9 and in level
\* 10 (10 and 11 levels below the workspace), and a .next directory nested
\* in the workspace's node_modules.
DeepPaths ==
    {Deep(k) : k \in 1..10} \cup
    {Deep(9) \o <<NM>>, Deep(10) \o <<NM>>, W \o <<NM, ".next">>}

\* The tree skeleton the filesystems are drawn from, in the order in which
\* read_dir lists siblings.
PathOrder ==
    << Root, H, W,
       W \o <<NM>>,
       W \o <<NM, "f">>,
       W \o <<NM, "b">>,
       W \o <<NM, "b", "c">>,
       W \o <<NM, "b", "c", "f">>,
       W \o <<NM, PYC>>,
       W \o <<NM, PYC, "f">>,
       W \o <<"cache.log">>,
       W \o <<DD>>,
       PKG,
       PKG \o <<"Package.swift">>,
       PKG \o <<".build">>,
       PKG \o <<"Package.resolved">>,
       LIB,
       LIB \o <<"Developer">>,
       LIB \o <<"Developer", "Xcode">>,
       LIB \o <<"Developer", "Xcode", DD>>,
       LIB \o <<"Caches">>,
       LIB \o <<"Caches", "Homebrew">>,
       W \o <<NM, ".next">>,
       Deep(1), Deep(2), Deep(3), Deep(4), Deep(5), Deep(6), Deep(7), Deep(8),
       Deep(9), Deep(10),
       Deep(9) \o <<NM>>,
       Deep(10) \o <<NM>> >>

Paths == {PathOrder[i] : i \in 1..Len(PathOrder)}

\* The part of the skeleton the deletion engine is run on.
DelPaths ==
    { W \o <<NM>>,
      W \o <<NM, "f">>,
      W \o <<NM, "b">>,
      W \o <<NM, "b", "c">>,
      W \o <<NM, "b", "c", "f">>,
      W \o <<NM, PYC>>,
      W \o <<NM, PYC, "f">>,
      W \o <<"cache.log">> }

\* Which kinds of object a path may hold when the deletion engine is run.
DelMayBe(p) ==
    IF p \in {Root, H, W, W \o <<NM>>} THEN {"dir"}
    ELSE IF p \notin DelPaths THEN {"none"}
    ELSE IF p = W \o <<NM, "f">> THEN {"none", "file", "link"}
    ELSE IF p[Len(p)] \in {"f", "cache.log"} THEN {"none", "file"}
    ELSE {"none", "dir"}

\* Byte length of a component name.
NameLen(n) ==
    CASE n = NM -> 12
      [] n = PYC -> 11
      [] n = DD -> 11
      [] n = "cache.log" -> 9
      [] n = "Package.swift" -> 13
      [] n = "Package.resolved" -> 16
      [] n = ".build" -> 6
      [] n = "Library" -> 7
      [] n = "Developer" -> 9
      [] n = "Xcode" -> 5
      [] n = "Caches" -> 6
      [] n = "Homebrew" -> 8
      [] n = "home" -> 4
      [] n = "pkg" -> 3
      [] n = ".next" -> 5
      [] OTHER -> 1

\* p.as_os_str().len()
RECURSIVE PathLen(_)
PathLen(p) ==
    IF p = Root THEN 0
    ELSE PathLen(SubSeq(p, 1, Len(p) - 1)) + 1 + NameLen(p[Len(p)])

Parent(p) == SubSeq(p, 1, Len(p) - 1)

\* a is p or an ancestor of p
IsPrefix(a, p) == Len(a) <= Len(p) /\ SubSeq(p, 1, Len(a)) = a
StrictAncestor(a, p) == a # p /\ IsPrefix(a, p)

Rank(p) == CHOOSE i \in 1..Len(PathOrder) : PathOrder[i] = p

RECURSIVE SetToSeq(_)
SetToSeq(S) ==
    IF S = {} THEN << >>
    ELSE LET m == CHOOSE x \in S : \A y \in S : Rank(x) <= Rank(y)
         IN <<m>> \o SetToSeq(S \ {m})

----------------------------------------------------------------------------
(* Filesystem *)

Kinds == {"none", "file", "dir", "link"}

\* Every existing object has a directory as parent.
WellFormed(f) ==
    \A p \in Paths \ {Root} : f[p] # "none" => f[Parent(p)] = "dir"

Children(f, p) == {q \in Paths \ {Root} : Parent(q) = p /\ f[q] # "none"}

\* Everything at or beneath p that exists.
Subtree(f, p) == {q \in Paths : IsPrefix(p, q) /\ f[q] # "none"}

\* fs::remove_file: the outcome and the filesystem after it.
RemoveFile(f, p, den) ==
    IF f[p] = "none" THEN [out |-> "notfound", fs |-> f]
    ELSE IF p \in den THEN [out |-> "denied", fs |-> f]
    ELSE IF f[p] = "dir" THEN [out |-> "isdir", fs |-> f]
    ELSE [out |-> "ok", fs |-> [f EXCEPT ![p] = "none"]]

\* fs::remove_dir: the outcome and the filesystem after it.
RemoveDir(f, p, den) ==
    IF f[p] = "none" THEN [out |-> "notfound", fs |-> f]
    ELSE IF p \in den THEN [out |-> "denied", fs |-> f]
    ELSE IF f[p] # "dir" THEN [out |-> "notdir", fs |-> f]
    ELSE IF Children(f, p) # {} THEN [out |-> "notempty", fs |-> f]
    ELSE [out |-> "ok", fs |-> [f EXCEPT ![p] = "none"]]

----------------------------------------------------------------------------
(* Exclusion matcher *)

\* path::is_excluded: paths are absolute, so the set is asked directly.
is_excluded(p, E) == p \in E

----------------------------------------------------------------------------
(* Size computation *)

\* metadata.len() of the regular file at p: files of a few bytes, an empty
\* file and a huge (sparse) one.
FileLen(p) ==
    CASE p = W \o <<"cache.log">> -> 5
      [] p = W \o <<NM, "b", "c", "f">> -> 0
      [] p = W \o <<NM, PYC, "f">> -> SizeCap - 1
      [] OTHER -> 3

\* u64::saturating_add
unchecked_add(a, b) == a + b
saturating_add(a, b) == IF a + b > SizeCap THEN SizeCap ELSE a + b

\* The loop of path_size over the walker: stack holds the entries still to be
\* yielded, depth first; an excluded entry is skipped, an excluded directory
\* is not descended into.
RECURSIVE SizeWalk(_, _, _, _)
SizeWalk(f, E, stack, total) ==
    IF stack = << >> THEN total
    ELSE LET p == Head(stack)
             rest == Tail(stack)
         IN IF f[p] = "none" THEN SizeWalk(f, E, rest, total)
            ELSE IF is_excluded(p, E) THEN SizeWalk(f, E, rest, total)
            ELSE IF f[p] = "file"
                 THEN SizeWalk(f, E, rest, saturating_add(total, FileLen(p)))
            ELSE IF f[p] = "dir"
                 THEN SizeWalk(f, E, SetToSeq(Children(f, p)) \o rest, total)
            ELSE SizeWalk(f, E, rest, total)

path_size(f, p, E) ==
    IF f[p] = "file" THEN FileLen(p) ELSE SizeWalk(f, E, <<p>>, 0)

\* compute_sizes_parallel on one item: an item whose size is 0 is measured.
\* A File item that is gone makes metadata() fail.
SizeOf(f, E, it) ==
    IF it.size # 0 THEN it.size
    ELSE IF it.kind = "Directory" THEN path_size(f, it.path, E)
    ELSE FileLen(it.path)

SizeFails(f, it) == it.size = 0 /\ it.kind = "File" /\ f[it.path] = "none"

----------------------------------------------------------------------------
(* Named-directory scanners *)

MaxWalkDepth == 10

PYTHON_TARGETS ==
    {"__pycache__", ".pytest_cache", ".ruff_cache", ".mypy_cache", ".venv", ".uv-cache"}
RUST_TARGETS == {"target"}
NODEJS_TARGETS == {"node_modules", ".next", ".nuxt", ".svelte-kit"}

\* entry.file_name()
NameOf(p) == IF p = Root THEN "/" ELSE p[Len(p)]

ScanItem(c, p, sz, k) == [category |-> c, path |-> p, size |-> sz, kind |-> k]

\* What the walker yields after the entry p of a walk from root: nothing
\* for an excluded directory (skip_current_dir), for a directory at
\* max_depth and for anything that is no directory, else the directory's
\* entries.
DescendNoPrune(f, E, root, p) ==
    IF f[p] = "dir" /\ Len(p) - Len(root) < MaxWalkDepth
    THEN SetToSeq(Children(f, p)) ELSE << >>

Descend(f, E, root, p) ==
    IF f[p] = "dir" /\ ~is_excluded(p, E) /\ Len(p) - Len(root) < MaxWalkDepth
    THEN SetToSeq(Children(f, p)) ELSE << >>

\* walker.skip_current_dir() after a target was reported: nothing beneath it
\* is yielded.
AfterMatchDescend(f, E, root, p) == Descend(f, E, root, p)
AfterMatch(f, E, root, p) == << >>

\* The walk of GenericScanner::scan / NodejsScanner::scan below one root.
\* stack: the entries still to be yielded; measure: whether the scanner sizes
\* the directory at discovery (NodejsScanner) or leaves 0 (GenericScanner).
RECURSIVE TargetWalk(_, _, _, _, _, _, _, _)
TargetWalk(f, E, root, targets, cat, measure, stack, acc) ==
    IF stack = << >> THEN acc
    ELSE LET p == Head(stack)
             rest == Tail(stack)
         IN IF is_excluded(p, E)
            THEN TargetWalk(f, E, root, targets, cat, measure,
                            Descend(f, E, root, p) \o rest, acc)
            ELSE IF f[p] = "dir" /\ NameOf(p) \in targets
            THEN TargetWalk(f, E, root, targets, cat, measure,
                     AfterMatch(f, E, root, p) \o rest,
                     Append(acc, ScanItem(cat, p,
                         IF measure THEN path_size(f, p, E) ELSE 0,
                         "Directory")))
            ELSE TargetWalk(f, E, root, targets, cat, measure,
                            Descend(f, E, root, p) \o rest, acc)

\* for root in roots { if !root.exists() { continue } ... }
RECURSIVE TargetScan(_, _, _, _, _, _)
TargetScan(f, E, roots, targets, cat, measure) ==
    IF roots = << >> THEN << >>
    ELSE LET r == Head(roots)
         IN (IF f[r] = "none" THEN << >>
             ELSE TargetWalk(f, E, r, targets, cat, measure, <<r>>, << >>))
            \o TargetScan(f, E, Tail(roots), targets, cat, measure)

GenericScan(f, E, roots, targets, cat) == TargetScan(f, E, roots, targets, cat, FALSE)
PythonScan(f, E, roots) == GenericScan(f, E, roots, PYTHON_TARGETS, "Python")
RustScan(f, E, roots) == GenericScan(f, E, roots, RUST_TARGETS, "Rust")
NodejsScanUnmeasured(f, E, roots) ==
    TargetScan(f, E, roots, NODEJS_TARGETS, "Nodejs", FALSE)
NodejsScan(f, E, roots) == TargetScan(f, E, roots, NODEJS_TARGETS, "Nodejs", TRUE)

----------------------------------------------------------------------------
(* Xcode and Brew scanners *)

Exists(f, p) == p \in Paths /\ f[p] # "none"
is_file(f, p) == p \in Paths /\ f[p] = "file"

\* XcodeScanner::global_safe_paths, the home directory being H.
global_safe_paths ==
    << LIB \o <<"Developer", "Xcode", DD>>,
       LIB \o <<"Caches", "com.apple.dt.Xcode">>,
       LIB \o <<"Developer", "Xcode", "DocumentationCache">>,
       LIB \o <<"Developer", "Xcode", "DocumentationIndex">>,
       LIB \o <<"Developer", "Xcode", "UserData", "Previews">>,
       LIB \o <<"Caches", "org.swift.swiftpm">>,
       LIB \o <<"org.swift.swiftpm">>,
       LIB \o <<"Developer", "CoreSimulator", "Caches">> >>

add_path(f, E, p, acc) ==
    IF is_excluded(p, E) THEN acc
    ELSE Append(acc, ScanItem("Xcode", p, 0,
                              IF is_file(f, p) THEN "File" ELSE "Directory"))

ARTIFACTS == <<".build", ".swiftpm", "Package.resolved">>

\* collect_swiftpm_artifacts, from the k-th artifact on.
RECURSIVE CollectFrom(_, _, _, _, _)
CollectFrom(f, E, parent, k, acc) ==
    IF k > Len(ARTIFACTS) THEN acc
    ELSE CollectFrom(f, E, parent, k + 1,
            IF Exists(f, parent \o <<ARTIFACTS[k]>>)
            THEN add_path(f, E, parent \o <<ARTIFACTS[k]>>, acc)
            ELSE acc)

collect_swiftpm_artifacts(f, E, parent, acc) == CollectFrom(f, E, parent, 1, acc)

\* scan_global_caches, from the k-th path on.
RECURSIVE GlobalFrom(_, _, _, _)
GlobalFrom(f, E, k, acc) ==
    IF k > Len(global_safe_paths) THEN acc
    ELSE GlobalFrom(f, E, k + 1,
            IF Exists(f, global_safe_paths[k])
            THEN add_path(f, E, global_safe_paths[k], acc)
            ELSE acc)

scan_global_caches(f, E) == GlobalFrom(f, E, 1, << >>)

\* How a root is spelled: absolute, relative with a leading "./", or
\* relative without.  The walker yields each entry as the root's spelling
\* joined with the entry's path below the root.
Spellings == {"abs", "dot", "bare"}

\* parent.to_path_buf(): the PathBuf of the directory, as spelled through
\* the root the walk started from.
PathBufOf(sp, p) == <<sp, p>>

\* The walk of scan_local_projects below one root spelled sp; st holds the
\* items and processed_packages, which lives across the roots.
RECURSIVE XcodeWalk(_, _, _, _, _, _)
XcodeWalk(f, E, root, sp, stack, st) ==
    IF stack = << >> THEN st
    ELSE LET p == Head(stack)
             rest == Tail(stack)
         IN IF is_excluded(p, E)
            THEN XcodeWalk(f, E, root, sp, Descend(f, E, root, p) \o rest, st)
            ELSE IF f[p] = "dir" /\ NameOf(p) = DD
            THEN XcodeWalk(f, E, root, sp, rest,
                           [st EXCEPT !.items = add_path(f, E, p, @)])
            ELSE IF /\ f[p] = "file"
                    /\ NameOf(p) = "Package.swift"
                    /\ p # Root
                    /\ PathBufOf(sp, Parent(p)) \notin st.processed
            THEN XcodeWalk(f, E, root, sp, rest,
                    [items |-> collect_swiftpm_artifacts(f, E, Parent(p), st.items),
                     processed |-> st.processed \cup {PathBufOf(sp, Parent(p))}])
            ELSE XcodeWalk(f, E, root, sp, Descend(f, E, root, p) \o rest, st)

RECURSIVE LocalFrom(_, _, _, _, _)
LocalFrom(f, E, roots, spell, st) ==
    IF roots = << >> THEN st
    ELSE LocalFrom(f, E, Tail(roots), Tail(spell),
            IF ~Exists(f, Head(roots)) THEN st
            ELSE XcodeWalk(f, E, Head(roots), Head(spell), <<Head(roots)>>, st))

scan_local_projects(f, E, roots, spell) ==
    LocalFrom(f, E, roots, spell, [items |-> << >>, processed |-> {}]).items

\* XcodeScanner::scan
XcodeScan(f, E, roots, spell, cur) ==
    scan_local_projects(f, E, roots, spell)
        \o (IF ~cur THEN scan_global_caches(f, E) ELSE << >>)

\* BrewScanner::brew_paths
brew_paths ==
    << LIB \o <<"Caches", "Homebrew">>,
       <<"opt", "homebrew", "Library", "Caches">>,
       <<"usr", "local", "Homebrew", "Library", "Logs">> >>

\* BrewScanner::collect_directories, from the k-th path on.
RECURSIVE BrewFrom(_, _, _, _)
BrewFrom(f, E, k, acc) ==
    IF k > Len(brew_paths) THEN acc
    ELSE BrewFrom(f, E, k + 1,
            IF ~is_excluded(brew_paths[k], E) /\ Exists(f, brew_paths[k])
            THEN Append(acc, ScanItem("Brew", brew_paths[k],
                                      path_size(f, brew_paths[k], E), "Directory"))
            ELSE acc)

BrewScan(f, E) == BrewFrom(f, E, 1, << >>)

----------------------------------------------------------------------------
(* list_targets of the scanners *)

ListEntry(label, p, n) == [label |-> label, path |-> p, n |-> n]

\* The BTreeMap order of the target names.
PYTHON_NAMES ==
    <<".mypy_cache", ".pytest_cache", ".ruff_cache", ".uv-cache", ".venv", "__pycache__">>
RUST_NAMES == <<"target">>
NODEJS_NAMES == <<".next", ".nuxt", ".svelte-kit", "node_modules">>

Range(q) == {q[i] : i \in 1..Len(q)}

CountNamed(its, name) ==
    Cardinality({i \in 1..Len(its) : NameOf(its[i].path) = name})

\* GenericScanner::list_targets / NodejsScanner::list_targets: the walk is
\* that of scan; one entry per target name found, with its count.
RECURSIVE NamedEntries(_, _, _)
NamedEntries(its, names, k) ==
    IF k > Len(names) THEN << >>
    ELSE (IF CountNamed(its, names[k]) > 0
          THEN <<ListEntry(names[k], << >>, CountNamed(its, names[k]))>>
          ELSE << >>) \o NamedEntries(its, names, k + 1)

GenericList(f, E, roots, names, cat) ==
    NamedEntries(GenericScan(f, E, roots, Range(names), cat), names, 1)

\* The walk of list_local_targets: counts DerivedData directories and
\* Package.swift files.
RECURSIVE XcodeListWalk(_, _, _, _, _)
XcodeListWalk(f, E, root, stack, st) ==
    IF stack = << >> THEN st
    ELSE LET p == Head(stack)
             rest == Tail(stack)
         IN IF is_excluded(p, E)
            THEN XcodeListWalk(f, E, root, Descend(f, E, root, p) \o rest, st)
            ELSE IF f[p] = "dir" /\ NameOf(p) = DD
            THEN XcodeListWalk(f, E, root, rest, [st EXCEPT !.dd = @ + 1])
            ELSE IF f[p] = "file" /\ NameOf(p) = "Package.swift"
            THEN XcodeListWalk(f, E, root, rest, [st EXCEPT !.pm = @ + 1])
            ELSE XcodeListWalk(f, E, root, Descend(f, E, root, p) \o rest, st)

RECURSIVE ListLocalFrom(_, _, _, _)
ListLocalFrom(f, E, roots, st) ==
    IF roots = << >> THEN st
    ELSE ListLocalFrom(f, E, Tail(roots),
            IF ~Exists(f, Head(roots)) THEN st
            ELSE XcodeListWalk(f, E, Head(roots), <<Head(roots)>>, st))

list_local_targets(f, E, roots) ==
    LET st == ListLocalFrom(f, E, roots, [dd |-> 0, pm |-> 0])
    IN (IF st.dd > 0 THEN <<ListEntry(DD, << >>, st.dd)>> ELSE << >>)
       \o (IF st.pm > 0 THEN <<ListEntry("SwiftPM Projects", << >>, st.pm)>> ELSE << >>)

RECURSIVE ExistsFrom(_, _, _, _)
ExistsFrom(f, E, paths, k) ==
    IF k > Len(paths) THEN << >>
    ELSE (IF Exists(f, paths[k]) /\ ~is_excluded(paths[k], E)
          THEN <<ListEntry("exists", paths[k], 1)>> ELSE << >>)
         \o ExistsFrom(f, E, paths, k + 1)

list_global_targets(f, E) == ExistsFrom(f, E, global_safe_paths, 1)

XcodeList(f, E, roots, cur) ==
    list_local_targets(f, E, roots)
        \o (IF ~cur THEN list_global_targets(f, E) ELSE << >>)

BrewList(f, E) == ExistsFrom(f, E, brew_paths, 1)

----------------------------------------------------------------------------
(* The docker CLI *)

\* dockerEnv: "absent"   docker --version cannot be run or fails
\*            "vanishes" the probe succeeds, the next command cannot be spawned
\*            "failing"  the probe succeeds, the next command exits non-zero
\*            "empty"    docker system df reports nothing reclaimable
\*            "some"     docker system df reports DockerBytes reclaimable
DockerEnvs == {"absent", "vanishes", "failing", "empty", "some"}

is_docker_available(env) == env # "absent"

DockerBytes == 7
DOCKER_SCAN_LABEL == <<"docker:prune">>

\* scan_docker
scan_docker(env) ==
    IF ~is_docker_available(env) THEN [ok |-> TRUE, items |-> << >>]
    ELSE IF env = "vanishes" THEN [ok |-> FALSE, items |-> << >>]
    ELSE IF env = "failing" THEN [ok |-> TRUE, items |-> << >>]
    ELSE IF env = "empty" THEN [ok |-> TRUE, items |-> << >>]
    ELSE [ok |-> TRUE,
          items |-> <<ScanItem("Docker", DOCKER_SCAN_LABEL, DockerBytes, "Directory")>>]

\* list_targets_docker
list_targets_docker(env) ==
    IF ~is_docker_available(env) THEN << >>
    ELSE << ListEntry("Unused images", << >>, 1),
            ListEntry("Stopped containers", << >>, 1),
            ListEntry("Dangling volumes", << >>, 1),
            ListEntry("Unused networks", << >>, 1),
            ListEntry("Build cache", << >>, 1) >>

----------------------------------------------------------------------------
(* Scan orchestration: scan_categories, run_filesystem_scan, list_targets *)

\* Category::ALL, with the Docker variant the commands refer to.
CategoryALL == <<"Xcode", "Python", "Rust", "Nodejs", "Brew", "Docker">>

NoOptions ==
    [cmd |-> "none", categories |-> << >>, explicit |-> FALSE, all |-> FALSE,
     roots |-> << >>, spell |-> << >>, current |-> FALSE, assume_yes |-> FALSE]

Pending == [st |-> "pending", ok |-> TRUE, items |-> << >>]
Skipped == [st |-> "skipped", ok |-> TRUE, items |-> << >>]
Done(ok, its) == [st |-> "done", ok |-> ok, items |-> its]

EmptyReport == << >>

IdleScan ==
    [pc |-> "idle", cats |-> << >>, disc |-> << >>, docker |-> Skipped,
     fsr |-> [st |-> "pending", ok |-> TRUE, sizing |-> "none",
              report |-> EmptyReport],
     ok |-> TRUE, report |-> EmptyReport, listing |-> << >>]

\* get_scanners: the scanners in their order; Brew only outside current mode.
get_scanners_any(cur) == <<"Xcode", "Python", "Rust", "Nodejs", "Brew">>
get_scanners(cur) ==
    IF ~cur THEN <<"Xcode", "Python", "Rust", "Nodejs", "Brew">>
    ELSE <<"Xcode", "Python", "Rust", "Nodejs">>

\* scanner.scan(roots, verbose) of the scanner of category s.
ScannerScan(s, f, E, roots, spell, cur) ==
    CASE s = "Xcode" -> XcodeScan(f, E, roots, spell, cur)
      [] s = "Python" -> PythonScan(f, E, roots)
      [] s = "Rust" -> RustScan(f, E, roots)
      [] s = "Nodejs" -> NodejsScan(f, E, roots)
      [] s = "Brew" -> BrewScan(f, E)

\* scanner.list_targets(roots) of the scanner of category s.
ScannerList(s, f, E, roots, cur) ==
    CASE s = "Xcode" -> XcodeList(f, E, roots, cur)
      [] s = "Python" -> GenericList(f, E, roots, PYTHON_NAMES, "Python")
      [] s = "Rust" -> GenericList(f, E, roots, RUST_NAMES, "Rust")
      [] s = "Nodejs" -> NamedEntries(NodejsScan(f, E, roots), NODEJS_NAMES, 1)
      [] s = "Brew" -> BrewList(f, E)

\* categories without Docker
fs_categories(cats) == SelectSeq(cats, LAMBDA c : c # "Docker")

\* The scanners whose category was requested.
filtered_scanners(cats, cur) ==
    SelectSeq(get_scanners(cur), LAMBDA s : s \in Range(fs_categories(cats)))

should_scan_docker(cats, cur) == "Docker" \in Range(cats) /\ ~cur

\* ScanReport::add_items
add_items(rep, c, its) ==
    [x \in DOMAIN rep \cup {c} |->
        IF x = c THEN (IF c \in DOMAIN rep THEN rep[c] ELSE << >>) \o its
        ELSE rep[x]]

\* Iterator::sum over u64: the addition wraps around in a release build
wrapping_add(a, b) == (a + b) % (SizeCap + 1)

\* CategoryReport::total_size
RECURSIVE SumSizes(_)
SumSizes(its) ==
    IF its = << >> THEN 0 ELSE wrapping_add(Head(its).size, SumSizes(Tail(its)))

RECURSIVE SumOver(_, _)
SumOver(rep, cs) ==
    IF cs = {} THEN 0
    ELSE LET c == CHOOSE x \in cs : TRUE
         IN wrapping_add(SumSizes(rep[c]), SumOver(rep, cs \ {c}))

\* ScanReport::total_size
total_size(rep) == SumOver(rep, DOMAIN rep)

\* ScanReport::subset
subset(rep, cats) == [c \in DOMAIN rep \cap Range(cats) |-> rep[c]]

RECURSIVE Flatten(_, _)
Flatten(disc, ss) ==
    IF ss = << >> THEN << >> ELSE disc[Head(ss)].items \o Flatten(disc, Tail(ss))

\* The categories a command asks scan_categories for.
requested_categories(o) ==
    IF o.cmd = "run"
    THEN (IF o.all THEN CategoryALL
          ELSE IF o.explicit THEN o.categories ELSE CategoryALL)
    ELSE o.categories

\* scan_categories is entered: the discovery tasks and the docker branch are
\* forked.
ScanBegin ==
    /\ opts.cmd \in {"scan", "run"}
    /\ sc.pc = "idle"
    /\ LET cats == requested_categories(opts)
           fsc == filtered_scanners(cats, opts.current)
       IN sc' = [sc EXCEPT
                   !.pc = "scanning",
                   !.cats = cats,
                   !.disc = [s \in Range(fsc) |-> Pending],
                   !.docker = IF should_scan_docker(cats, opts.current)
                              THEN Pending ELSE Skipped]
    /\ UNCHANGED <<fs, excl, denied, items, task, phase, round, result, fsStart,
                   rescan, opts, dockerEnv, run>>
    /\ UNCHANGED unitVars

\* The discovery task of one scanner: scanner.scan(roots, verbose)?, which
\* is an error for a scanner that fails.
Discover(s) ==
    /\ sc.pc = "scanning"
    /\ s \in DOMAIN sc.disc
    /\ sc.disc[s].st = "pending"
    /\ sc' = [sc EXCEPT !.disc[s] =
                IF s \in faulty THEN Done(FALSE, << >>)
                ELSE Done(TRUE, ScannerScan(s, fs, excl, opts.roots, opts.spell,
                                            opts.current))]
    /\ UNCHANGED <<fs, excl, denied, items, task, phase, round, result, fsStart,
                   rescan, opts, dockerEnv, run>>
    /\ UNCHANGED unitVars

\* The docker branch of rayon::join in scan_categories.
ScanDocker ==
    /\ sc.pc = "scanning"
    /\ sc.docker.st = "pending"
    /\ sc' = [sc EXCEPT !.docker =
                Done(scan_docker(dockerEnv).ok, scan_docker(dockerEnv).items)]
    /\ UNCHANGED <<fs, excl, denied, items, task, phase, round, result, fsStart,
                   rescan, opts, dockerEnv, run>>
    /\ UNCHANGED unitVars

\* The BTreeMap of the discovered items, keyed by category.
GroupedEvery(its) ==
    [c \in {"Xcode", "Python", "Rust", "Nodejs", "Brew"} |->
        SelectSeq(its, LAMBDA x : x.category = c)]
Grouped(its) ==
    [c \in {its[i].category : i \in 1..Len(its)} |->
        SelectSeq(its, LAMBDA x : x.category = c)]

\* discovery_results?: collecting the tasks' results into a Result fails
\* when one of them is an error.
DiscoveryFailedNever(disc) == FALSE
DiscoveryFailed(disc) == \E s \in DOMAIN disc : ~disc[s].ok

\* run_filesystem_scan after the discovery tasks have joined: the items are
\* flattened in scanner order, sized and grouped.
FsFinish ==
    /\ sc.pc = "scanning"
    /\ sc.fsr.st = "pending"
    /\ \A s \in DOMAIN sc.disc : sc.disc[s].st = "done"
    /\ LET discovered == Flatten(sc.disc, filtered_scanners(sc.cats, opts.current))
           sized == [i \in 1..Len(discovered) |->
                        [discovered[i] EXCEPT !.size = SizeOf(fs, excl, discovered[i])]]
       IN sc' = [sc EXCEPT !.fsr =
                IF DiscoveryFailed(sc.disc)
                THEN [st |-> "done", ok |-> FALSE, sizing |-> "none",
                      report |-> EmptyReport]
                ELSE IF discovered = << >>
                THEN [st |-> "done", ok |-> TRUE, sizing |-> "none",
                      report |-> EmptyReport]
                ELSE IF \E i \in 1..Len(discovered) : SizeFails(fs, discovered[i])
                THEN [st |-> "done", ok |-> FALSE, sizing |-> "failed",
                      report |-> EmptyReport]
                ELSE [st |-> "done", ok |-> TRUE, sizing |-> "done",
                      report |-> Grouped(sized)]]
    /\ UNCHANGED <<fs, excl, denied, items, task, phase, round, result, fsStart,
                   rescan, opts, dockerEnv, run>>
    /\ UNCHANGED unitVars

\* docker_result?.filter(|items| !items.is_empty())
DockerKeptAlways(its) == TRUE
DockerKept(its) == its # << >>

\* scan_categories returns: both branches have joined.
ScanReturn ==
    /\ sc.pc = "scanning"
    /\ sc.fsr.st = "done"
    /\ sc.docker.st # "pending"
    /\ sc' = [sc EXCEPT
                !.pc = "returned",
                !.ok = sc.fsr.ok /\ sc.docker.ok,
                !.report =
                    IF ~(sc.fsr.ok /\ sc.docker.ok) THEN EmptyReport
                    ELSE IF sc.docker.st = "done" /\ DockerKept(sc.docker.items)
                    THEN add_items(sc.fsr.report, "Docker", sc.docker.items)
                    ELSE sc.fsr.report]
    /\ UNCHANGED <<fs, excl, denied, items, task, phase, round, result, fsStart,
                   rescan, opts, dockerEnv, run>>
    /\ UNCHANGED unitVars

\* list_targets is entered: one listing task per requested scanner.
ListBegin ==
    /\ opts.cmd = "list"
    /\ sc.pc = "idle"
    /\ sc' = [sc EXCEPT
                !.pc = "listing",
                !.cats = opts.categories,
                !.disc = [s \in Range(filtered_scanners(opts.categories, opts.current))
                            |-> Pending]]
    /\ UNCHANGED <<fs, excl, denied, items, task, phase, round, result, fsStart,
                   rescan, opts, dockerEnv, run>>
    /\ UNCHANGED unitVars

\* The listing task of one scanner.
ListTargets(s) ==
    /\ sc.pc = "listing"
    /\ s \in DOMAIN sc.disc
    /\ sc.disc[s].st = "pending"
    /\ sc' = [sc EXCEPT !.disc[s] =
                Done(TRUE, ScannerList(s, fs, excl, opts.roots, opts.current))]
    /\ UNCHANGED <<fs, excl, denied, items, task, phase, round, result, fsStart,
                   rescan, opts, dockerEnv, run>>
    /\ UNCHANGED unitVars

\* list_targets returns the map of the listings, with the docker targets when
\* Docker was asked for outside current mode and the CLI is there.
ListReturn ==
    /\ sc.pc = "listing"
    /\ \A s \in DOMAIN sc.disc : sc.disc[s].st = "done"
    /\ LET map == [s \in DOMAIN sc.disc |-> sc.disc[s].items]
           dl == list_targets_docker(dockerEnv)
       IN sc' = [sc EXCEPT
                   !.pc = "returned",
                   !.ok = TRUE,
                   !.listing =
                       IF "Docker" \in Range(sc.cats) /\ ~opts.current /\ dl # << >>
                       THEN add_items(map, "Docker", dl)
                       ELSE map]
    /\ UNCHANGED <<fs, excl, denied, items, task, phase, round, result, fsStart,
                   rescan, opts, dockerEnv, run>>
    /\ UNCHANGED unitVars

\* How the docker CLI behaves while run_docker_cleanup runs: whether the
\* probe succeeds, which command fails (0: none) and how, by exiting
\* non-zero ("exit") or by not being found when it is spawned ("spawn").
NoCleanup == [probe |-> FALSE, fail |-> 0, how |-> ""]

IdleRun ==
    [pc |-> "idle", input |-> << >>, selected |-> << >>, plan |-> EmptyReport,
     answer |-> "", confirmed |-> FALSE, docker |-> Skipped, pruned |-> 0,
     cli |-> NoCleanup, log |-> << >>, ok |-> TRUE, why |-> ""]

----------------------------------------------------------------------------
(* Safe deletion: delete_items and safe_remove_dir_all *)

\* dirs_to_remove.sort_by_key(|p| Reverse(p.as_os_str().len())): a stable
\* sort, longest path first.
SortKeyDepth(p) == Len(p)
SortKey(p) == PathLen(p)

RECURSIVE InsertDir(_, _)
InsertDir(sorted, x) ==
    IF sorted = << >> THEN <<x>>
    ELSE IF SortKey(Head(sorted)) >= SortKey(x)
         THEN <<Head(sorted)>> \o InsertDir(Tail(sorted), x)
         ELSE <<x>> \o sorted

RECURSIVE SortDirs(_)
SortDirs(s) ==
    IF s = << >> THEN << >>
    ELSE InsertDir(SortDirs(SubSeq(s, 1, Len(s) - 1)), s[Len(s)])

Entry(p, k) == [path |-> p, kind |-> k]

\* read_dir of a directory entry the walker has just yielded: its children
\* with their d_type, pushed on the walker's stack.
ReadDir(f, p) ==
    IF f[p] = "dir"
    THEN [i \in 1..Cardinality(Children(f, p)) |->
            Entry(SetToSeq(Children(f, p))[i], f[SetToSeq(Children(f, p))[i]])]
    ELSE << >>

IdleTask ==
    [pc |-> "start", stack |-> << >>, files |-> << >>, dirs |-> << >>,
     idx |-> 1, log |-> << >>]

\* Moves a task past the loops it has exhausted: the walk ends when the
\* walker is empty, the file loop when every file was tried (the directories
\* are then sorted), the directory loop when every directory was tried.
RECURSIVE Settle(_)
Settle(t) ==
    IF t.pc = "walk" /\ t.stack = << >>
    THEN Settle([t EXCEPT !.pc = "files", !.idx = 1])
    ELSE IF t.pc = "files" /\ t.idx > Len(t.files)
    THEN Settle([t EXCEPT !.pc = "dirs", !.idx = 1, !.dirs = SortDirs(t.dirs)])
    ELSE IF t.pc = "dirs" /\ t.idx > Len(t.dirs)
    THEN [t EXCEPT !.pc = "done"]
    ELSE t

Tasks == DOMAIN task

\* The match arms on the result of fs::remove_file: Ok and NotFound go on.
FileToleratedStrict(out) == out = "ok"
FileToleratedAny(out) == TRUE
FileTolerated(out) == out \in {"ok", "notfound"}

\* The match arms on the result of fs::remove_dir: Ok, NotFound and
\* DirectoryNotEmpty go on.
DirToleratedStrict(out) == out \in {"ok", "notfound"}
DirTolerated(out) == out \in {"ok", "notfound", "notempty"}

Ended(t) == t.pc \in {"done", "err", "skipped"}

\* The closure of items.par_iter().try_for_each, up to its match on the kind.
TaskStart(i) ==
    /\ phase = "deleting"
    /\ task[i].pc = "start"
    /\ LET it == items[i] IN
       IF is_excluded(it.path, excl)
       THEN /\ task' = [task EXCEPT ![i].pc = "done"]
            /\ fs' = fs
       ELSE IF it.kind = "Directory"
       THEN /\ task' = [task EXCEPT ![i] =
                          [@ EXCEPT !.pc = "walk",
                                    !.stack = <<Entry(it.path, "root")>>]]
            /\ fs' = fs
       ELSE LET r == RemoveFile(fs, it.path, denied) IN
            /\ fs' = r.fs
            /\ task' = [task EXCEPT ![i] =
                          [@ EXCEPT !.pc = IF FileTolerated(r.out)
                                           THEN "done" ELSE "err",
                                    !.log = Append(@, [op |-> "file",
                                                 path |-> it.path, out |-> r.out])]]
    /\ UNCHANGED <<excl, denied, items, phase, round, result, fsStart, rescan>>
    /\ UNCHANGED cmdVars
    /\ UNCHANGED unitVars

\* try_for_each hands out no further item once a task has failed.
TaskAbandon(i) ==
    /\ phase = "deleting"
    /\ task[i].pc = "start"
    /\ \E j \in Tasks : task[j].pc = "err"
    /\ task' = [task EXCEPT ![i].pc = "skipped"]
    /\ UNCHANGED <<fs, excl, denied, items, phase, round, result, fsStart, rescan>>
    /\ UNCHANGED cmdVars
    /\ UNCHANGED unitVars

\* The body of the walk loop of safe_remove_dir_all for the entry e of kind
\* k yielded to task t (rest: the walker's stack without e): an excluded
\* entry is skipped, an excluded directory is not descended into; a file is
\* collected, a directory is collected and read; anything else is ignored.
VisitNoPrune(t, e, k, rest, f, E) ==
    IF k = "none" THEN [t EXCEPT !.stack = rest]
    ELSE IF is_excluded(e.path, E)
         THEN [t EXCEPT !.stack = ReadDir(f, e.path) \o rest]
    ELSE IF k = "file"
         THEN [t EXCEPT !.stack = rest, !.files = Append(@, e.path)]
    ELSE IF k = "dir"
         THEN [t EXCEPT !.stack = ReadDir(f, e.path) \o rest,
                        !.dirs = Append(@, e.path)]
    ELSE [t EXCEPT !.stack = rest]

VisitStrict(t, e, k, rest, f, E) ==
    IF k = "none" THEN [t EXCEPT !.pc = "err"]
    ELSE IF is_excluded(e.path, E) THEN [t EXCEPT !.stack = rest]
    ELSE IF k = "file"
         THEN [t EXCEPT !.stack = rest, !.files = Append(@, e.path)]
    ELSE IF k = "dir"
         THEN [t EXCEPT !.stack = ReadDir(f, e.path) \o rest,
                        !.dirs = Append(@, e.path)]
    ELSE [t EXCEPT !.stack = rest]

\* Where the symbolic link the engine may meet points: the project
\* directory itself, as the links of a linked workspace package do.
LinkTarget == W

\* A walk with follow_links(true): the entries beneath a link are those of
\* its target; an entry leading back to an ancestor of the link is a loop
\* the walker reports as an error.
ReadLink(f, p) ==
    SelectSeq(ReadDir(f, LinkTarget), LAMBDA c : ~IsPrefix(c.path, p))

VisitFollow(t, e, k, rest, f, E) ==
    IF k = "none" THEN [t EXCEPT !.stack = rest]
    ELSE IF is_excluded(e.path, E) THEN [t EXCEPT !.stack = rest]
    ELSE IF k = "file"
         THEN [t EXCEPT !.stack = rest, !.files = Append(@, e.path)]
    ELSE IF k = "dir"
         THEN [t EXCEPT !.stack = ReadDir(f, e.path) \o rest,
                        !.dirs = Append(@, e.path)]
    ELSE [t EXCEPT !.stack = ReadLink(f, e.path) \o rest]

Visit(t, e, k, rest, f, E) ==
    IF k = "none" THEN [t EXCEPT !.stack = rest]
    ELSE IF is_excluded(e.path, E) THEN [t EXCEPT !.stack = rest]
    ELSE IF k = "file"
         THEN [t EXCEPT !.stack = rest, !.files = Append(@, e.path)]
    ELSE IF k = "dir"
         THEN [t EXCEPT !.stack = ReadDir(f, e.path) \o rest,
                        !.dirs = Append(@, e.path)]
    ELSE [t EXCEPT !.stack = rest]

\* One turn of the walk loop of safe_remove_dir_all.  The root entry is
\* stat'ed when the walk reaches it, the others carry the d_type read_dir
\* gave them.
WalkStep(i) ==
    /\ phase = "deleting"
    /\ task[i].pc = "walk"
    /\ LET e == Head(task[i].stack)
           k == IF e.kind = "root" THEN fs[e.path] ELSE e.kind
       IN task' = [task EXCEPT ![i] =
                     Settle(Visit(task[i], e, k, Tail(task[i].stack), fs, excl))]
    /\ UNCHANGED <<fs, excl, denied, items, phase, round, result, fsStart, rescan>>
    /\ UNCHANGED cmdVars
    /\ UNCHANGED unitVars

\* One turn of "for file in &files_to_remove".
FileStep(i) ==
    /\ phase = "deleting"
    /\ task[i].pc = "files"
    /\ LET t == task[i]
           p == t.files[t.idx]
           r == RemoveFile(fs, p, denied)
           l == Append(t.log, [op |-> "file", path |-> p, out |-> r.out])
       IN /\ fs' = r.fs
          /\ task' = [task EXCEPT ![i] =
                IF FileTolerated(r.out)
                THEN Settle([t EXCEPT !.idx = @ + 1, !.log = l])
                ELSE [t EXCEPT !.pc = "err", !.log = l]]
    /\ UNCHANGED <<excl, denied, items, phase, round, result, fsStart, rescan>>
    /\ UNCHANGED cmdVars
    /\ UNCHANGED unitVars

\* One turn of "for dir in &dirs_to_remove".
DirStep(i) ==
    /\ phase = "deleting"
    /\ task[i].pc = "dirs"
    /\ LET t == task[i]
           p == t.dirs[t.idx]
           r == RemoveDir(fs, p, denied)
           l == Append(t.log, [op |-> "dir", path |-> p, out |-> r.out])
       IN /\ fs' = r.fs
          /\ task' = [task EXCEPT ![i] =
                IF DirTolerated(r.out)
                THEN Settle([t EXCEPT !.idx = @ + 1, !.log = l])
                ELSE [t EXCEPT !.pc = "err", !.log = l]]
    /\ UNCHANGED <<excl, denied, items, phase, round, result, fsStart, rescan>>
    /\ UNCHANGED cmdVars
    /\ UNCHANGED unitVars

\* Between discovery and the size pass another process removes a discovered
\* path with what lies beneath it.
VanishPaths == {W \o <<"cache.log">>, W \o <<NM, PYC>>, W \o <<NM, "b", "c", "f">>}

Vanish(p) ==
    /\ phase = "discovered"
    /\ excl = {} /\ denied = {}
    /\ fs[p] # "none"
    /\ fs' = [q \in Paths |-> IF IsPrefix(p, q) THEN "none" ELSE fs[q]]
    /\ fsStart' = fs'
    /\ phase' = "changed"
    /\ UNCHANGED <<excl, denied, items, task, round, result, rescan>>
    /\ UNCHANGED cmdVars
    /\ UNCHANGED unitVars

\* compute_sizes_parallel over the discovered items: try_for_each fails when
\* the closure fails for an item.
ComputeSizes ==
    /\ phase \in {"discovered", "changed"}
    /\ IF \E i \in 1..Len(items) : SizeFails(fs, items[i])
       THEN /\ phase' = "sizefailed"
            /\ items' = items
       ELSE /\ phase' = "sized"
            /\ items' = [i \in 1..Len(items) |->
                            [items[i] EXCEPT !.size = SizeOf(fs, excl, items[i])]]
    /\ UNCHANGED <<fs, excl, denied, task, round, result, fsStart, rescan>>
    /\ UNCHANGED cmdVars
    /\ UNCHANGED unitVars

\* delete_items is entered: nothing to do for an empty list, else one task
\* per item.
DeleteItemsCall ==
    /\ phase \in {"sized", "deleted", "rescanned"}
    /\ round < MaxRounds
    /\ round' = round + 1
    /\ fsStart' = fs
    /\ task' = [i \in 1..Len(items) |-> IdleTask]
    /\ IF items = << >>
       THEN phase' = "deleted" /\ result' = "Ok"
       ELSE phase' = "deleting" /\ result' = "none"
    /\ UNCHANGED <<fs, excl, denied, items, rescan>>
    /\ UNCHANGED cmdVars
    /\ UNCHANGED unitVars

\* try_for_each has joined every task; the first error, if any, is returned.
DeleteItemsReturn ==
    /\ phase = "deleting"
    /\ \A i \in Tasks : Ended(task[i])
    /\ phase' = "deleted"
    /\ result' = IF \E i \in Tasks : task[i].pc = "err" THEN "Err" ELSE "Ok"
    /\ UNCHANGED <<fs, excl, denied, items, task, round, fsStart, rescan>>
    /\ UNCHANGED cmdVars
    /\ UNCHANGED unitVars

\* A repeat scan of the same root by the named-directory scanners.
Rescan ==
    /\ phase = "deleted"
    /\ phase' = "rescanned"
    /\ rescan' = [Nodejs |-> NodejsScan(fs, excl, <<W>>),
                  Python |-> PythonScan(fs, excl, <<W>>)]
    /\ UNCHANGED <<fs, excl, denied, items, task, round, result, fsStart>>
    /\ UNCHANGED cmdVars
    /\ UNCHANGED unitVars

----------------------------------------------------------------------------
(* The run command: execute_run *)

\* A line or a token is a string, the sequence of its characters.
UpperCase == <<"A", "B", "C", "D", "E", "F", "G", "H", "I", "J", "K", "L", "M",
               "N", "O", "P", "Q", "R", "S", "T", "U", "V", "W", "X", "Y", "Z">>
LowerCase == <<"a", "b", "c", "d", "e", "f", "g", "h", "i", "j", "k", "l", "m",
               "n", "o", "p", "q", "r", "s", "t", "u", "v", "w", "x", "y", "z">>

\* char::to_ascii_lowercase
LowerChar(ch) ==
    IF \E i \in 1..26 : UpperCase[i] = ch
    THEN LowerCase[CHOOSE i \in 1..26 : UpperCase[i] = ch]
    ELSE ch

\* str::to_ascii_lowercase
to_ascii_lowercase(str) == [i \in 1..Len(str) |-> LowerChar(str[i])]

IsSpace(ch) == ch \in {" ", "\t", "\n"}

\* str::trim
RECURSIVE TrimStart(_)
TrimStart(str) ==
    IF str # << >> /\ IsSpace(Head(str)) THEN TrimStart(Tail(str)) ELSE str

RECURSIVE TrimEnd(_)
TrimEnd(str) ==
    IF str # << >> /\ IsSpace(str[Len(str)])
    THEN TrimEnd(SubSeq(str, 1, Len(str) - 1)) ELSE str

Trim(str) == TrimEnd(TrimStart(str))

\* str::split(','): the pieces between the commas, empty ones included
RECURSIVE SplitFrom(_, _, _)
SplitFrom(str, cur, acc) ==
    IF str = << >> THEN Append(acc, cur)
    ELSE IF Head(str) = "," THEN SplitFrom(Tail(str), << >>, Append(acc, cur))
    ELSE SplitFrom(Tail(str), Append(cur, Head(str)), acc)

Split(str) == SplitFrom(str, << >>, << >>)

DigitValue(ch) ==
    CASE ch = "0" -> 0 [] ch = "1" -> 1 [] ch = "2" -> 2 [] ch = "3" -> 3
      [] ch = "4" -> 4 [] ch = "5" -> 5 [] ch = "6" -> 6 [] ch = "7" -> 7
      [] ch = "8" -> 8 [] ch = "9" -> 9 [] OTHER -> -1

RECURSIVE DecimalValue(_, _)
DecimalValue(digits, n) ==
    IF digits = << >> THEN n
    ELSE DecimalValue(Tail(digits), 10 * n + DigitValue(Head(digits)))

\* token.parse::<usize>(): an optional "+" and one or more decimal digits;
\* -1 for Err
parse_usize(tok) ==
    LET digits == IF tok # << >> /\ Head(tok) = "+" THEN Tail(tok) ELSE tok
    IN IF digits = << >> \/ \E i \in 1..Len(digits) : DigitValue(digits[i]) < 0
       THEN -1
       ELSE DecimalValue(digits, 0)

\* token.parse::<usize>() within 1..=Category::ALL.len(), 0 otherwise
ParseIndex(tok) ==
    IF parse_usize(tok) >= 1 /\ parse_usize(tok) <= Len(CategoryALL)
    THEN parse_usize(tok) ELSE 0

\* Category::from_name, "" for None
from_name_exact(tok) ==
    LET name == tok
    IN CASE name = <<"x", "c", "o", "d", "e">> -> "Xcode"
         [] name = <<"p", "y", "t", "h", "o", "n">> -> "Python"
         [] name = <<"r", "u", "s", "t">> -> "Rust"
         [] name = <<"n", "o", "d", "e", "j", "s">> -> "Nodejs"
         [] name = <<"b", "r", "e", "w">> -> "Brew"
         [] name = <<"d", "o", "c", "k", "e", "r">> -> "Docker"
         [] OTHER -> ""

from_name(tok) ==
    LET name == to_ascii_lowercase(tok)
    IN CASE name = <<"x", "c", "o", "d", "e">> -> "Xcode"
         [] name = <<"p", "y", "t", "h", "o", "n">> -> "Python"
         [] name = <<"r", "u", "s", "t">> -> "Rust"
         [] name = <<"n", "o", "d", "e", "j", "s">> -> "Nodejs"
         [] name = <<"b", "r", "e", "w">> -> "Brew"
         [] name = <<"d", "o", "c", "k", "e", "r">> -> "Docker"
         [] OTHER -> ""

PushNew(selected, c) == IF c \in Range(selected) THEN selected ELSE Append(selected, c)

\* The token loop of prompt_for_categories over the pieces of the line.
RECURSIVE ParseTokens(_, _)
ParseTokens(toks, selected) ==
    IF toks = << >>
    THEN (IF selected = << >> THEN [st |-> "cancelled", cats |-> << >>]
          ELSE [st |-> "ok", cats |-> selected])
    ELSE LET token == Trim(Head(toks))
         IN IF token = << >> THEN ParseTokens(Tail(toks), selected)
            ELSE IF ParseIndex(token) # 0
            THEN ParseTokens(Tail(toks), PushNew(selected, CategoryALL[ParseIndex(token)]))
            ELSE IF from_name(token) # ""
            THEN ParseTokens(Tail(toks), PushNew(selected, from_name(token)))
            ELSE [st |-> "invalid", cats |-> << >>]

\* prompt_for_categories on the line read from the terminal.
prompt_for_categories(input) ==
    LET trimmed == Trim(input)
    IN IF trimmed = << >> THEN [st |-> "cancelled", cats |-> << >>]
       ELSE IF to_ascii_lowercase(trimmed) = <<"a", "l", "l">>
       THEN [st |-> "ok", cats |-> CategoryALL]
       ELSE ParseTokens(Split(trimmed), << >>)

\* The pieces a line is typed from.
Pieces ==
    { <<",">>, <<" ">>, <<"1">>, <<"0">>, <<"6">>, <<"+">>,
      <<"b", "r", "e", "w">>, <<"R", "u", "S", "t">>, <<"a", "L", "l">> }

IdleTyped ==
    [pc |-> "typing", pieces |-> 0, line |-> << >>,
     res |-> [st |-> "", cats |-> << >>]]

\* The user types on at the prompt.
TypePiece(piece) ==
    /\ typed.pc = "typing"
    /\ typed.pieces < MaxPieces
    /\ typed' = [typed EXCEPT !.pieces = @ + 1, !.line = @ \o piece]
    /\ UNCHANGED engineVars
    /\ UNCHANGED <<faulty, cfg, built>>

\* The line is entered: io::stdin().read_line(&mut input) and the rest of
\* prompt_for_categories.
ReadLine ==
    /\ typed.pc = "typing"
    /\ typed' = [typed EXCEPT !.pc = "read",
                              !.line = @ \o <<"\n">>,
                              !.res = prompt_for_categories(typed.line \o <<"\n">>)]
    /\ UNCHANGED engineVars
    /\ UNCHANGED <<faulty, cfg, built>>

\* input.trim().to_ascii_lowercase() on the answers of ConfirmInputs
Normalize(a) ==
    CASE a = "Y" -> "y" [] a = "YES" -> "yes" [] OTHER -> a

\* confirm_deletion
confirm_deletion_default_yes(answer) == Normalize(answer) # "n"
confirm_deletion(answer) == Normalize(answer) \in {"y", "yes"}

\* The lines typed at the prompt of a run: "", ",", "all", "4",
\* "brew, 6,brew" and "bogus", each ended by the newline.
PromptInputs ==
    { <<"\n">>, <<",", "\n">>, <<"a", "l", "l", "\n">>, <<"4", "\n">>,
      <<"b", "r", "e", "w", ",", " ", "6", ",", "b", "r", "e", "w", "\n">>,
      <<"b", "o", "g", "u", "s", "\n">> }
ConfirmInputs == {"y", "YES", "n", ""}

\* subset.categories.values().flat_map(|report| &report.items), in the
\* order of the categories.
RECURSIVE ItemsOf(_, _)
ItemsOf(rep, cats) ==
    IF cats = << >> THEN << >>
    ELSE (IF Head(cats) \in DOMAIN rep THEN rep[Head(cats)] ELSE << >>)
         \o ItemsOf(rep, Tail(cats))

\* execute_run from the return of scan_categories to the deletion plan: the
\* categories are selected (read from the prompt unless given), the report
\* is restricted to them, and a plan of size 0 ends the run.
RunSelect ==
    /\ opts.cmd = "run"
    /\ run.pc = "idle"
    /\ sc.pc = "returned"
    /\ \E input \in PromptInputs :
         LET prompted == ~opts.all /\ ~opts.explicit
             sel == IF opts.all THEN [st |-> "ok", cats |-> CategoryALL]
                    ELSE IF opts.explicit THEN [st |-> "ok", cats |-> opts.categories]
                    ELSE prompt_for_categories(input)
             plan == subset(sc.report, sel.cats)
         IN run' =
              IF ~sc.ok
              THEN [run EXCEPT !.pc = "done", !.ok = FALSE, !.why = "scanfailed"]
              ELSE IF sel.st = "cancelled"
              THEN [run EXCEPT !.pc = "done", !.ok = TRUE, !.why = "cancelled",
                               !.input = input]
              ELSE IF sel.st = "invalid"
              THEN [run EXCEPT !.pc = "done", !.ok = FALSE, !.why = "invalid",
                               !.input = input]
              ELSE IF total_size(plan) = 0
              THEN [run EXCEPT !.pc = "done", !.ok = TRUE, !.why = "clean",
                               !.input = IF prompted THEN input ELSE << >>,
                               !.selected = sel.cats, !.plan = plan]
              ELSE [run EXCEPT !.pc = "confirm",
                               !.input = IF prompted THEN input ELSE << >>,
                               !.selected = sel.cats, !.plan = plan]
    /\ UNCHANGED <<fs, excl, denied, items, task, phase, round, result, fsStart,
                   rescan, opts, dockerEnv, sc>>
    /\ UNCHANGED unitVars

\* execute_run from the confirmation to the fork of the deletion: unless
\* assume_yes, the answer is read; a refusal ends the run, otherwise
\* delete_items is entered on the filesystem items of the plan, next to the
\* docker cleanup when Docker was selected outside current mode.
RunConfirm ==
    /\ run.pc = "confirm"
    /\ \E answer \in ConfirmInputs :
         LET asked == ~opts.assume_yes
             proceed == opts.assume_yes \/ confirm_deletion(answer)
             fs_items == SelectSeq(ItemsOf(run.plan, CategoryALL),
                                   LAMBDA it : it.category # "Docker")
             needs_docker_cleanup == "Docker" \in Range(run.selected) /\ ~opts.current
         IN IF ~proceed
            THEN /\ run' = [run EXCEPT !.pc = "done", !.ok = TRUE, !.why = "declined",
                                       !.answer = answer]
                 /\ UNCHANGED <<items, task, phase, round, result, fsStart>>
            ELSE /\ run' = [run EXCEPT !.pc = "deleting", !.confirmed = TRUE,
                                       !.answer = IF asked THEN answer ELSE "",
                                       !.docker = IF needs_docker_cleanup
                                                  THEN Pending ELSE Skipped]
                 /\ items' = fs_items
                 /\ task' = [i \in 1..Len(fs_items) |-> IdleTask]
                 /\ round' = round + 1
                 /\ fsStart' = fs
                 /\ IF fs_items = << >>
                    THEN phase' = "deleted" /\ result' = "Ok"
                    ELSE phase' = "deleting" /\ result' = "none"
    /\ UNCHANGED <<fs, excl, denied, rescan, opts, dockerEnv, sc>>
    /\ UNCHANGED unitVars

\* The prune commands of run_docker_cleanup, by their first argument.
commands == <<"image", "container", "volume", "network", "builder">>

\* The steps at which a command may fail.
FailSteps == {1, 3}

\* The behaviours of the CLI during the cleanup.  Without a CLI at scan time
\* there is none at cleanup time; a CLI that was there may have gone, may
\* fail at a step or may disappear between two steps.
CleanupBehaviours(env) ==
    IF ~is_docker_available(env) THEN {NoCleanup}
    ELSE {NoCleanup, [probe |-> TRUE, fail |-> 0, how |-> ""]}
         \cup {[probe |-> TRUE, fail |-> k, how |-> h] :
                   k \in FailSteps, h \in {"exit", "spawn"}}

\* for args in commands: Command::new("docker").args(args).status()? fails
\* with NotFound when the CLI cannot be spawned; a non-zero exit status is
\* an error of kind Other.  log holds the commands that were run.
RECURSIVE PruneFrom(_, _, _)
PruneFrom(d, k, log) ==
    IF k > Len(commands) THEN [ok |-> TRUE, kind |-> "", log |-> log]
    ELSE IF d.fail = k /\ d.how = "spawn"
    THEN [ok |-> FALSE, kind |-> "NotFound", log |-> log]
    ELSE IF d.fail = k /\ d.how = "exit"
    THEN [ok |-> FALSE, kind |-> "Other", log |-> Append(log, commands[k])]
    ELSE PruneFrom(d, k + 1, Append(log, commands[k]))

\* run_docker_cleanup: the probe, then the five prune commands up to the
\* first that fails.
run_docker_cleanup(d) ==
    IF ~d.probe THEN [ok |-> FALSE, kind |-> "NotFound", log |-> << >>]
    ELSE PruneFrom(d, 1, << >>)

\* run_docker_cleanup_with_handling: an error whose source is an io::Error
\* of kind NotFound is a skip.
run_docker_cleanup_with_handling(d) ==
    LET r == run_docker_cleanup(d)
    IN [ok |-> r.ok \/ r.kind = "NotFound", log |-> r.log]

\* The docker branch of rayon::join in execute_run.
RunDocker ==
    /\ run.pc = "deleting"
    /\ run.docker.st = "pending"
    /\ \E d \in CleanupBehaviours(dockerEnv) :
          LET r == run_docker_cleanup_with_handling(d)
          IN run' = [run EXCEPT !.docker = Done(r.ok, << >>),
                                !.pruned = Len(r.log),
                                !.cli = d,
                                !.log = r.log]
    /\ UNCHANGED <<fs, excl, denied, items, task, phase, round, result, fsStart,
                   rescan, opts, dockerEnv, sc>>
    /\ UNCHANGED unitVars

\* Both branches have joined: delete_result?, docker_result?, Ok(()).
RunReturn ==
    /\ run.pc = "deleting"
    /\ phase = "deleted"
    /\ run.docker.st # "pending"
    /\ run' = [run EXCEPT !.pc = "done", !.why = "finished",
                          !.ok = (result = "Ok") /\ run.docker.ok]
    /\ UNCHANGED <<fs, excl, denied, items, task, phase, round, result, fsStart,
                   rescan, opts, dockerEnv, sc>>
    /\ UNCHANGED unitVars

----------------------------------------------------------------------------
(* The configuration: Config::load, append_exclude and save *)

\* An exclude pattern is a string, a sequence of characters.  "Q" is the
\* double quote and "B" the backslash, the characters a TOML basic string
\* escapes; "," separates the entries of the array in the file.
Patterns == {<<"a">>, <<"a", ",", "Q">>, <<"B", "a">>}

\* toml: the escaped characters of a basic string
RECURSIVE Escape(_)
Escape(p) ==
    IF p = << >> THEN << >>
    ELSE (IF Head(p) \in {"Q", "B"} THEN <<"B", Head(p)>> ELSE <<Head(p)>>)
         \o Escape(Tail(p))

\* toml::to_string_pretty(&Config): the entries of the exclude array, each a
\* quoted string followed by a comma.
RECURSIVE to_string_pretty(_)
to_string_pretty(ex) ==
    IF ex = << >> THEN << >>
    ELSE <<"Q">> \o Escape(Head(ex)) \o <<"Q", ",">> \o to_string_pretty(Tail(ex))

\* toml: read a basic string up to its closing quote
RECURSIVE ReadString(_, _)
ReadString(t, acc) ==
    IF t = << >> THEN [ok |-> FALSE, str |-> acc, rest |-> << >>]
    ELSE IF Head(t) = "Q" THEN [ok |-> TRUE, str |-> acc, rest |-> Tail(t)]
    ELSE IF Head(t) = "B"
         THEN (IF Len(t) >= 2 /\ t[2] \in {"Q", "B"}
               THEN ReadString(SubSeq(t, 3, Len(t)), Append(acc, t[2]))
               ELSE [ok |-> FALSE, str |-> acc, rest |-> << >>])
    ELSE ReadString(Tail(t), Append(acc, Head(t)))

RECURSIVE ReadArray(_, _)
ReadArray(t, acc) ==
    IF t = << >> THEN [ok |-> TRUE, exclude |-> acc]
    ELSE IF Head(t) # "Q" THEN [ok |-> FALSE, exclude |-> << >>]
    ELSE LET r == ReadString(Tail(t), << >>)
         IN IF ~r.ok \/ r.rest = << >> \/ Head(r.rest) # ","
            THEN [ok |-> FALSE, exclude |-> << >>]
            ELSE ReadArray(Tail(r.rest), Append(acc, r.str))

\* toml::from_str::<Config>: an absent exclude key is the empty list
from_str(t) == ReadArray(t, << >>)

\* Config::append_exclude
append_exclude_push(ex, value) == Append(ex, value)
append_exclude(ex, value) ==
    IF ~(\E i \in 1..Len(ex) : ex[i] = value) THEN Append(ex, value) ELSE ex

NoFile == [exists |-> FALSE, text |-> << >>]
FileOf(t) == [exists |-> TRUE, text |-> t]
NoOp == [op |-> "none", ok |-> TRUE, value |-> << >>, before |-> << >>]

\* matcher: what compile_excludes returned, "" before it is called.
IdleCfg ==
    [mem |-> << >>, file |-> NoFile, last |-> NoOp, appended |-> {}, again |-> {},
     matcher |-> ""]

\* Config::load: the file's list, or the default when there is no file.
load(file) ==
    IF file.exists THEN from_str(file.text) ELSE [ok |-> TRUE, exclude |-> << >>]

\* Glob::new: a pattern with an unclosed character class is rejected.
RECURSIVE GlobValid(_)
GlobValid(p) ==
    IF p = << >> THEN TRUE
    ELSE IF Head(p) = "["
    THEN (\E i \in 2..Len(p) : p[i] = "]" /\ GlobValid(SubSeq(p, i + 1, Len(p))))
    ELSE GlobValid(Tail(p))

\* Config::compile_excludes: no matcher for an empty list, an error for a
\* pattern Glob::new rejects.
compile_excludes_lenient(ex) ==
    IF ex = << >> THEN "None" ELSE "Some"
compile_excludes(ex) ==
    IF ex = << >> THEN "None"
    ELSE IF \E i \in 1..Len(ex) : ~GlobValid(ex[i]) THEN "Err"
    ELSE "Some"

ConfigLoad ==
    /\ LET r == load(cfg.file)
       IN cfg' = IF r.ok
                 THEN [cfg EXCEPT !.mem = r.exclude, !.appended = {},
                                  !.last = [op |-> "load", ok |-> TRUE,
                                            value |-> << >>, before |-> cfg.mem]]
                 ELSE [cfg EXCEPT !.last = [op |-> "load", ok |-> FALSE,
                                            value |-> << >>, before |-> cfg.mem]]
    /\ UNCHANGED engineVars
    /\ UNCHANGED <<faulty, built, typed>>

\* config.append_exclude(value)
ConfigAppend(value) ==
    /\ Len(cfg.mem) < MaxExcludeLen
    /\ cfg' = [cfg EXCEPT !.mem = append_exclude(cfg.mem, value),
                          !.appended = @ \cup {value},
                          !.again = IF value \in cfg.appended
                                    THEN @ \cup {value} ELSE @,
                          !.last = [op |-> "append", ok |-> TRUE,
                                    value |-> value, before |-> cfg.mem]]
    /\ UNCHANGED engineVars
    /\ UNCHANGED <<faulty, built, typed>>

\* config.save(): the file is created (truncated) and then written; either
\* step can fail with an I/O error.
ConfigSave ==
    /\ \E out \in {"ok", "create fails", "write fails"} :
          cfg' = [cfg EXCEPT
                    !.file = CASE out = "ok" -> FileOf(to_string_pretty(cfg.mem))
                               [] out = "create fails" -> @
                               [] out = "write fails" -> FileOf(<< >>),
                    !.last = [op |-> "save", ok |-> out = "ok",
                              value |-> << >>, before |-> cfg.mem]]
    /\ UNCHANGED engineVars
    /\ UNCHANGED <<faulty, built, typed>>

\* execute_scan and execute_run, their first two statements:
\* Config::load()? and config.compile_excludes()?.  An error ends the
\* command.
CommandEnter ==
    /\ opts.cmd \in {"scan", "list", "run"}
    /\ sc.pc = "entry"
    /\ LET r == load(cfg.file)
           m == IF r.ok THEN compile_excludes(r.exclude) ELSE ""
           good == r.ok /\ m # "Err"
       IN /\ cfg' = [cfg EXCEPT !.mem = IF r.ok THEN r.exclude ELSE @,
                                !.matcher = m,
                                !.last = [op |-> "load", ok |-> r.ok,
                                          value |-> << >>, before |-> cfg.mem]]
          /\ sc' = IF good THEN [sc EXCEPT !.pc = "idle"]
                   ELSE [sc EXCEPT !.pc = "failed", !.ok = FALSE]
          /\ run' = IF ~good /\ opts.cmd = "run"
                    THEN [run EXCEPT !.pc = "done", !.ok = FALSE, !.why = "config"]
                    ELSE run
    /\ UNCHANGED <<fs, excl, denied, items, task, phase, round, result, fsStart,
                   rescan, opts, dockerEnv>>
    /\ UNCHANGED <<faulty, built, typed>>

----------------------------------------------------------------------------
(* ScanReport: add_items, categories, subset, total_size *)

\* #[derive(Ord)] of Category: the order of the declaration
CategoryRank(c) == CHOOSE i \in 1..Len(CategoryALL) : CategoryALL[i] = c

\* ScanReport::categories: the keys of the BTreeMap, in key order
RECURSIVE KeysInOrder(_)
KeysInOrder(cs) ==
    IF cs = {} THEN << >>
    ELSE LET c == CHOOSE x \in cs : \A y \in cs : CategoryRank(x) <= CategoryRank(y)
         IN <<c>> \o KeysInOrder(cs \ {c})

categories(rep) == KeysInOrder(DOMAIN rep)

\* The items a caller passes to add_items: none, one or two, small or huge.
Batches(c) ==
    { << >>,
      <<ScanItem(c, W \o <<c>>, 1, "Directory")>>,
      <<ScanItem(c, W \o <<c, "x">>, SizeCap - 1, "Directory"),
        ScanItem(c, W \o <<c, "y">>, 1, "File")>> }

ReportCategories == {"Xcode", "Python", "Brew", "Docker"}

SubsetChoices ==
    { << >>, <<"Brew", "Xcode">>, <<"Python", "Python">>, <<"Docker", "Rust">>,
      CategoryALL }

IdleBuilt ==
    [report |-> EmptyReport, calls |-> << >>,
     sub |-> [made |-> FALSE, cs |-> << >>, report |-> EmptyReport]]

\* report.add_items(category, items)
ReportAddItems(c, its) ==
    /\ Len(built.calls) < MaxCalls
    /\ built' = [built EXCEPT !.report = add_items(@, c, its),
                              !.calls = Append(@, [category |-> c, items |-> its]),
                              !.sub = IdleBuilt.sub]
    /\ UNCHANGED engineVars
    /\ UNCHANGED <<faulty, cfg, typed>>

\* report.subset(categories)
ReportSubset(cs) ==
    /\ built' = [built EXCEPT !.sub = [made |-> TRUE, cs |-> cs,
                                       report |-> subset(built.report, cs)]]
    /\ UNCHANGED engineVars
    /\ UNCHANGED <<faulty, cfg, typed>>

----------------------------------------------------------------------------
(* The deletion engine on its own *)

\* The filesystems of the skeleton.
DelFilesystems ==
    LET free == {p \in Paths : Cardinality(DelMayBe(p)) > 1}
        all == {[p \in Paths |-> IF p \in free THEN g[p]
                                 ELSE CHOOSE k \in DelMayBe(p) : TRUE] :
                   g \in [free -> Kinds]}
    IN {f \in all : (\A p \in Paths : f[p] \in DelMayBe(p)) /\ WellFormed(f)}

ExcludeSets == {E \in SUBSET DelPaths : Cardinality(E) <= MaxExcluded}
DeniedSets == {D \in SUBSET {W \o <<NM, "f">>, W \o <<NM, "b">>, W \o <<"cache.log">>} :
                   Cardinality(D) <= MaxDenied}

\* Item lists a scan can have produced: no item lies beneath an excluded
\* directory, every item exists with the kind it was discovered as.  The
\* exclusion set and the denied set are given by the paths they hit.
ItemA == ScanItem("Nodejs", W \o <<NM>>, 0, "Directory")
ItemB == ScanItem("Xcode", W \o <<"cache.log">>, 0, "File")
ItemC == ScanItem("Python", W \o <<NM, PYC>>, 0, "Directory")
ItemLists == {<<ItemA>>, <<ItemA, ItemB>>, <<ItemC, ItemA>>, <<ItemB>>}

KindOf(f, p) == IF f[p] = "dir" THEN "Directory" ELSE "File"

Discoverable(f, E, its) ==
    \A i \in 1..Len(its) :
        /\ f[its[i].path] # "none"
        /\ KindOf(f, its[i].path) = its[i].kind
        /\ \A a \in E : ~StrictAncestor(a, its[i].path)

InitDel ==
    /\ fs \in DelFilesystems
    /\ excl \in ExcludeSets
    /\ \A p \in excl : fs[p] # "none"
    /\ denied \in DeniedSets
    /\ \A p \in denied : fs[p] # "none"
    /\ items \in ItemLists
    /\ Discoverable(fs, excl, items)
    /\ task = << >>
    /\ phase = "discovered"
    /\ round = 0
    /\ result = "none"
    /\ fsStart = fs
    /\ rescan = [Nodejs |-> << >>, Python |-> << >>]
    /\ opts = NoOptions
    /\ dockerEnv = "absent"
    /\ sc = IdleScan
    /\ run = IdleRun
    /\ faulty = {}
    /\ cfg = IdleCfg
    /\ built = IdleBuilt
    /\ typed = IdleTyped

NextDel ==
    \/ \E p \in VanishPaths : Vanish(p)
    \/ ComputeSizes
    \/ DeleteItemsCall
    \/ \E i \in Tasks : TaskStart(i)
    \/ \E i \in Tasks : TaskAbandon(i)
    \/ \E i \in Tasks : WalkStep(i)
    \/ \E i \in Tasks : FileStep(i)
    \/ \E i \in Tasks : DirStep(i)
    \/ DeleteItemsReturn
    \/ Rescan

SpecDel == InitDel /\ [][NextDel]_vars

----------------------------------------------------------------------------
(* Properties of the deletion engine *)

Finished == phase \in {"deleted", "rescanned"}
Called == phase \in {"deleting", "deleted", "rescanned"}

\* p is matched by the exclusion set or lies beneath a matched path.
Protected(p) == \E a \in excl : IsPrefix(a, p)

ItemTree(i) == Subtree(fsStart, items[i].path)

Unexcluded(i) == \A q \in ItemTree(i) : ~is_excluded(q, excl)
Undenied(i) == \A q \in ItemTree(i) : q \notin denied

\* C3: a Directory item with no excluded path in its subtree, deleted
\* without a fatal removal failure, is gone with every entry beneath it
\* (files, subdirectories, symbolic links) once delete_items has returned
\* Ok, and a repeat scan of the root reports nothing for its category.
C3_DirectoryItemRemovedEntirely ==
    \A i \in 1..Len(items) :
        ( /\ Finished
          /\ result = "Ok"
          /\ items[i].kind = "Directory"
          /\ Unexcluded(i)
          /\ Undenied(i) )
        => /\ \A q \in ItemTree(i) : fs[q] = "none"
           /\ phase = "rescanned" => rescan[items[i].category] = << >>

\* The removal of directory d was attempted by task t before position j of
\* its log.
TriedBefore(t, op, p, j) ==
    \E k \in 1..(j - 1) : t.log[k].op = op /\ t.log[k].path = p

InSeq(s, x) == \E k \in 1..Len(s) : s[k] = x

\* The order of safe_remove_dir_all: a directory is tried after every
\* collected file and after every collected directory beneath it.
FilesThenDeepestDirs ==
    \A i \in Tasks : \A j \in 1..Len(task[i].log) :
        task[i].log[j].op = "dir" =>
            /\ \A p \in Paths : InSeq(task[i].files, p)
                  => TriedBefore(task[i], "file", p, j)
            /\ \A d \in Paths :
                  (InSeq(task[i].dirs, d) /\ StrictAncestor(task[i].log[j].path, d))
                  => TriedBefore(task[i], "dir", d, j)

\* C4: in safe_remove_dir_all a collected directory is tried only after
\* every collected file and every collected directory beneath it, and so in
\* a tree without excluded paths no directory removal fails as non-empty.
C4_OrderedAndNeverNonEmpty ==
    /\ FilesThenDeepestDirs
    /\ \A i \in Tasks :
          (Called /\ items[i].kind = "Directory" /\ Unexcluded(i))
          => \A j \in 1..Len(task[i].log) : task[i].log[j].out # "notempty"

\* C5: deleting again what is already gone returns Ok and changes nothing;
\* a not-found outcome never makes a task fail.
C5_Idempotent ==
    /\ (Called /\ \A i \in 1..Len(items) : fsStart[items[i].path] = "none")
       => /\ fs = fsStart
          /\ \A i \in Tasks : task[i].pc # "err"
          /\ Finished => result = "Ok"
    /\ \A i \in Tasks :
          task[i].pc = "err"
          => task[i].log[Len(task[i].log)].out \notin {"ok", "notfound"}

\* A File item and a Directory item, both deleted by the first call, were
\* deleted again and the second call returned Ok.
C5_Witness ==
    /\ round = 2
    /\ phase = "deleted"
    /\ result = "Ok"
    /\ \A i \in 1..Len(items) : fsStart[items[i].path] = "none"
    /\ \E i \in 1..Len(items) : items[i].kind = "File" /\ task[i].log # << >>
    /\ \E i \in 1..Len(items) : items[i].kind = "Directory"

\* Item i is a directory that is not excluded while every entry in it is.
OnlyExcludedContent(i) ==
    /\ items[i].kind = "Directory"
    /\ ~is_excluded(items[i].path, excl)
    /\ Children(fsStart, items[i].path) # {}
    /\ \A q \in Children(fsStart, items[i].path) : is_excluded(q, excl)

\* C6: a Directory item that is not excluded while all its content is
\* measures 0 in the size pass, and its deletion does not fail while the
\* directory and its content stay: the non-empty failure is swallowed.
\* (Up to the first call fsStart is the filesystem the size pass saw.)
C6_OnlyExcludedContent ==
    \A i \in 1..Len(items) :
        OnlyExcludedContent(i) =>
            /\ (phase # "discovered" /\ round <= 1) => items[i].size = 0
            /\ Called =>
                  /\ task[i].pc # "err"
                  /\ \A q \in ItemTree(i) : fs[q] = fsStart[q]
                  /\ task[i].pc = "done" =>
                        task[i].log = <<[op |-> "dir", path |-> items[i].path,
                                         out |-> "notempty"]>>
            /\ (Finished /\ denied = {}) => result = "Ok"

C6_Witness ==
    /\ phase = "deleted"
    /\ result = "Ok"
    /\ \E i \in 1..Len(items) :
          /\ OnlyExcludedContent(i)
          /\ items[i].size = 0
          /\ task[i].pc = "done"
          /\ fs[items[i].path] = "dir"

----------------------------------------------------------------------------
(* The scan command *)

LIBDD == LIB \o <<"Developer", "Xcode", DD>>
BREWCACHE == LIB \o <<"Caches", "Homebrew">>

\* Which kinds of object a path may hold when a scan is run.
ScanMayBe(p) ==
    IF p \in {W \o <<NM>>, W \o <<NM, PYC>>, W \o <<DD>>, PKG \o <<".build">>,
              LIBDD, BREWCACHE}
    THEN {"none", "dir"}
    ELSE IF p \in {W \o <<NM, "f">>, PKG \o <<"Package.swift">>,
                   PKG \o <<"Package.resolved">>}
    THEN {"none", "file"}
    ELSE IF p \in {Root, H, W, PKG, LIB, LIB \o <<"Developer">>,
                   LIB \o <<"Developer", "Xcode">>, LIB \o <<"Caches">>}
    THEN {"dir"}
    ELSE {"none"}

\* The filesystems a scan is run on: node_modules is never empty, and a
\* Package.resolved comes with a .build directory.  A workspace without
\* Swift packages and caches may also hold the deep chain, and then a
\* huge file in the __pycache__ inside node_modules.
ScanFilesystems ==
    LET free == {p \in Paths : Cardinality(ScanMayBe(p)) > 1}
        all == {[p \in Paths |-> IF p \in free THEN g[p]
                                 ELSE CHOOSE k \in ScanMayBe(p) : TRUE] :
                   g \in [free -> {"none", "file", "dir"}]}
        flat == {f \in all : /\ \A p \in Paths : f[p] \in ScanMayBe(p)
                             /\ WellFormed(f)
                             /\ f[W \o <<NM>>] = "dir" => f[W \o <<NM, "f">>] = "file"
                             /\ f[PKG \o <<"Package.resolved">>] = "file"
                                     => f[PKG \o <<".build">>] = "dir"}
        plain == {f \in flat : \A p \in {W \o <<DD>>, PKG \o <<".build">>,
                                          PKG \o <<"Package.swift">>, LIBDD,
                                          BREWCACHE} : f[p] = "none"}
    IN flat \cup {[p \in Paths |->
                     IF p = W \o <<NM, ".next">>
                     THEN (IF f[W \o <<NM>>] = "dir" THEN "dir" ELSE "none")
                     ELSE IF p = W \o <<NM, PYC, "f">>
                     THEN (IF f[W \o <<NM, PYC>>] = "dir" THEN "file" ELSE "none")
                     ELSE IF p \in DeepPaths THEN "dir" ELSE f[p]] : f \in plain}

\* The paths an exclusion pattern of the configuration may match.
ScanExclPaths ==
    { W, W \o <<NM>>, W \o <<NM, PYC>>, W \o <<DD>>, PKG, PKG \o <<".build">>,
      PKG \o <<"Package.swift">>, LIBDD, BREWCACHE }

ScanExcludeSets(f) ==
    {E \in SUBSET {p \in ScanExclPaths : f[p] # "none"} : Cardinality(E) <= MaxExcluded}

\* The roots of the command line, the working directory being W; current
\* mode substitutes the working directory, an absolute path.
RootChoices ==
    { [roots |-> <<W>>, spell |-> <<"abs">>, current |-> TRUE],
      [roots |-> <<W>>, spell |-> <<"dot">>, current |-> FALSE],
      [roots |-> <<W, PKG>>, spell |-> <<"abs", "abs">>, current |-> FALSE],
      [roots |-> <<W, PKG>>, spell |-> <<"dot", "bare">>, current |-> FALSE],
      [roots |-> <<H>>, spell |-> <<"abs">>, current |-> FALSE] }

ScanCategoryChoices ==
    { <<"Xcode", "Brew", "Docker">>, <<"Python", "Rust", "Nodejs">> }

ScanOptions(cats, rc) ==
    [cmd |-> "scan", categories |-> cats, explicit |-> TRUE, all |-> FALSE,
     roots |-> rc.roots, spell |-> rc.spell, current |-> rc.current,
     assume_yes |-> FALSE]

\* Which scanner, if any, fails during the scan.
ScanFaultChoices == {{}, {"Rust"}, {"Brew"}}

InitScan ==
    /\ fs \in ScanFilesystems
    /\ excl \in ScanExcludeSets(fs)
    /\ \E cats \in ScanCategoryChoices, rc \in RootChoices :
          /\ opts = ScanOptions(cats, rc)
          /\ dockerEnv \in IF should_scan_docker(cats, rc.current)
                           THEN {"absent", "some"} ELSE {"some"}
    /\ sc = IdleScan
    /\ run = IdleRun
    /\ denied = {}
    /\ faulty \in (IF excl = {} THEN ScanFaultChoices ELSE {{}})
    /\ items = << >>
    /\ task = << >>
    /\ phase = "idle"
    /\ round = 0
    /\ result = "none"
    /\ fsStart = fs
    /\ rescan = [Nodejs |-> << >>, Python |-> << >>]
    /\ cfg = IdleCfg
    /\ built = IdleBuilt
    /\ typed = IdleTyped

NextScan ==
    \/ ScanBegin
    \/ \E s \in DOMAIN sc.disc : Discover(s)
    \/ ScanDocker
    \/ FsFinish
    \/ ScanReturn

SpecScan == InitScan /\ [][NextScan]_vars

----------------------------------------------------------------------------
(* Properties of discovery *)

\* Every item a scanner has returned so far.
Discovered ==
    UNION {Range(sc.disc[s].items) : s \in DOMAIN sc.disc}

FixedPaths == Range(global_safe_paths) \cup Range(brew_paths)

\* p was reached by the walk from some root without passing a directory
\* the exclusion set matches.
WalkedUnpruned(p) ==
    \E k \in 1..Len(opts.roots) :
        /\ IsPrefix(opts.roots[k], p)
        /\ \A a \in excl : ~(IsPrefix(opts.roots[k], a) /\ IsPrefix(a, p))

Occurrences(its, p) == Cardinality({i \in 1..Len(its) : its[i].path = p})

IsArtifact(p) == p # Root /\ NameOf(p) \in Range(ARTIFACTS)

\* C10: the Xcode scanner reports .build, .swiftpm or Package.resolved only
\* with a Package.swift file in the same parent directory, and reports each
\* of them at most once in a scan, overlapping roots included.
C10_SwiftPMArtifacts ==
    ("Xcode" \in DOMAIN sc.disc /\ sc.pc \in {"scanning", "returned"}) =>
        LET its == sc.disc["Xcode"].items IN
        \A i \in 1..Len(its) :
            IsArtifact(its[i].path) =>
                /\ is_file(fs, Parent(its[i].path) \o <<"Package.swift">>)
                /\ Occurrences(its, its[i].path) = 1

\* The same for roots that are spelled alike, so that every sighting of a
\* manifest gives its parent the same PathBuf.
SpelledAlike == \A k \in 1..Len(opts.spell) : opts.spell[k] = opts.spell[1]

C10_SpelledAlike == SpelledAlike => C10_SwiftPMArtifacts

----------------------------------------------------------------------------
(* The commands scan, scan --list and run *)

\* The filesystems the commands are run on: a node_modules directory in
\* the workspace, the Homebrew cache, and the global DerivedData or not.
CmdFilesystems ==
    {f \in ScanFilesystems :
        /\ f[W \o <<NM>>] = "dir"
        /\ f[BREWCACHE] = "dir"
        /\ \A p \in {W \o <<NM, PYC>>, W \o <<DD>>, PKG \o <<"Package.swift">>,
                     PKG \o <<".build">>} : f[p] = "none"}

CmdExcludeSets == {{}, {BREWCACHE}, {W \o <<NM, "f">>}}
CmdDeniedSets == {D \in SUBSET {W \o <<NM, "f">>} : Cardinality(D) <= MaxDenied}

\* current mode substitutes the working directory, W or the home directory.
CmdRootChoices ==
    { [roots |-> <<W>>, spell |-> <<"abs">>, current |-> TRUE],
      [roots |-> <<H>>, spell |-> <<"abs">>, current |-> TRUE],
      [roots |-> <<H>>, spell |-> <<"abs">>, current |-> FALSE] }

CmdCategoryChoices == { CategoryALL, <<"Nodejs", "Docker">> }

CmdOptions ==
    {[cmd |-> c, categories |-> cats, explicit |-> TRUE, all |-> FALSE,
      roots |-> rc.roots, spell |-> rc.spell, current |-> rc.current,
      assume_yes |-> FALSE] :
        c \in {"scan", "list"}, cats \in CmdCategoryChoices, rc \in CmdRootChoices}
    \cup
    {[cmd |-> "run", categories |-> cats, explicit |-> cats # << >>, all |-> a,
      roots |-> rc.roots, spell |-> rc.spell, current |-> rc.current,
      assume_yes |-> y] :
        cats \in {<< >>, <<"Nodejs", "Docker">>}, a \in BOOLEAN, y \in BOOLEAN,
        rc \in CmdRootChoices}

\* Which scanner, if any, fails during the scan.
CmdFaultChoices == {{}, {"Nodejs"}}

\* The configuration files a command finds: none, one with a pattern, one
\* that is not TOML (a string that is not closed) and one whose pattern is
\* not a glob.
PatternFile == FileOf(to_string_pretty(<< <<"a">> >>))
MalformedFile == FileOf(<<"Q", "a">>)
BadPatternFile == FileOf(to_string_pretty(<< <<"[", "a">> >>))
CmdConfigFiles == {NoFile, PatternFile, MalformedFile, BadPatternFile}

\* Without a file there is no pattern and nothing is matched; the pattern
\* of PatternFile stands for one that matches the paths of excl.
InitCmd ==
    /\ fs \in CmdFilesystems
    /\ excl \in CmdExcludeSets
    /\ denied \in CmdDeniedSets
    /\ opts \in CmdOptions
    /\ dockerEnv \in DockerEnvs
    /\ \E file \in CmdConfigFiles :
          /\ cfg = [IdleCfg EXCEPT !.file = file]
          /\ file = NoFile => excl = {}
          /\ file = PatternFile => excl # {}
          /\ file \in {MalformedFile, BadPatternFile} =>
                excl = {} /\ denied = {} /\ dockerEnv = "some"
    /\ sc = [IdleScan EXCEPT !.pc = "entry"]
    /\ run = IdleRun
    /\ items = << >>
    /\ task = << >>
    /\ phase = "idle"
    /\ round = 0
    /\ result = "none"
    /\ fsStart = fs
    /\ rescan = [Nodejs |-> << >>, Python |-> << >>]
    /\ faulty \in (IF excl = {} /\ denied = {} THEN CmdFaultChoices ELSE {{}})
    /\ built = IdleBuilt
    /\ typed = IdleTyped

NextCmd ==
    \/ CommandEnter
    \/ ScanBegin
    \/ \E s \in DOMAIN sc.disc : Discover(s)
    \/ ScanDocker
    \/ FsFinish
    \/ ScanReturn
    \/ ListBegin
    \/ \E s \in DOMAIN sc.disc : ListTargets(s)
    \/ ListReturn
    \/ RunSelect
    \/ RunConfirm
    \/ \E i \in Tasks : TaskStart(i)
    \/ \E i \in Tasks : TaskAbandon(i)
    \/ \E i \in Tasks : WalkStep(i)
    \/ \E i \in Tasks : FileStep(i)
    \/ \E i \in Tasks : DirStep(i)
    \/ DeleteItemsReturn
    \/ RunDocker
    \/ RunReturn

SpecCmd == InitCmd /\ [][NextCmd]_vars

----------------------------------------------------------------------------
(* Properties of the commands *)

\* C7: in execute_run nothing is removed and no prune command is run before
\* the confirmation; the confirmation is obtained only with assume_yes or
\* the answer y/yes; an empty category selection or a declined confirmation
\* ends the run with Ok and nothing deleted.
C7_NothingBeforeConfirmation ==
    opts.cmd = "run" =>
        /\ ~run.confirmed =>
              /\ fs = fsStart
              /\ phase = "idle"
              /\ run.docker.st = "skipped"
              /\ run.pruned = 0
        /\ run.confirmed =>
              opts.assume_yes \/ Normalize(run.answer) \in {"y", "yes"}
        /\ (run.pc = "done" /\ run.why \in {"cancelled", "declined"}) =>
              run.ok /\ ~run.confirmed

\* The user was shown a deletion plan of positive size, answered no, and the
\* run has ended with Ok.
C7_Witness ==
    /\ run.pc = "done"
    /\ run.why = "declined"
    /\ run.ok
    /\ run.answer = "n"
    /\ total_size(run.plan) > 0
    /\ fs = fsStart

Returned == sc.pc = "returned" /\ opts.cmd \in {"scan", "run"}

\* C8: with the docker CLI unavailable scan_categories returns Ok (unless a
\* filesystem scanner failed) and the
\* report has no Docker entry; whenever the report has a Docker entry, the
\* docker scan returned at least one item and the entry holds these items.
C8_DockerAbsentOrNonEmpty ==
    Returned =>
        /\ dockerEnv = "absent" =>
              /\ faulty = {} => sc.ok
              /\ "Docker" \notin DOMAIN sc.report
        /\ "Docker" \in DOMAIN sc.report =>
              /\ sc.docker.st = "done"
              /\ sc.docker.ok
              /\ sc.docker.items # << >>
              /\ sc.report["Docker"] = sc.docker.items

\* All categories were scanned without a docker CLI: the docker scan ran,
\* the scan is Ok and its report has other categories but not Docker.
C8_Witness ==
    /\ Returned
    /\ sc.cats = CategoryALL
    /\ dockerEnv = "absent"
    /\ sc.docker.st = "done"
    /\ sc.ok
    /\ "Nodejs" \in DOMAIN sc.report
    /\ "Docker" \notin DOMAIN sc.report

UnderRoot(p) == IsPrefix(opts.roots[1], p)

\* C9: in current mode the Brew scanner is not run, neither the docker scan
\* nor the docker cleanup is run, report and listing have no Brew and no
\* Docker entry, the Xcode scanner reports and lists only what the walk
\* found under the root, and only items under the root are deleted.
C9_CurrentModeIsLocal ==
    opts.current =>
        /\ "Brew" \notin DOMAIN sc.disc
        /\ sc.docker.st = "skipped"
        /\ run.docker.st = "skipped" /\ run.pruned = 0
        /\ {"Brew", "Docker"} \cap (DOMAIN sc.report \cup DOMAIN sc.listing) = {}
        /\ \A it \in Discovered : opts.cmd # "list" => UnderRoot(it.path)
        /\ \A c \in DOMAIN sc.listing : \A i \in 1..Len(sc.listing[c]) :
              sc.listing[c][i].label # "exists"
        /\ \A i \in 1..Len(items) :
              items[i].category \notin {"Brew", "Docker"} /\ UnderRoot(items[i].path)
        /\ \A p \in Paths : ~UnderRoot(p) => fs[p] = fsStart[p]
        /\ fs[BREWCACHE] = fsStart[BREWCACHE]

\* A run of all categories in current mode in the workspace, with a docker
\* CLI, a Homebrew cache and a global DerivedData present, has deleted
\* node_modules and ended with Ok.
C9_Witness ==
    /\ opts.cmd = "run"
    /\ opts.current
    /\ opts.all
    /\ opts.roots = <<W>>
    /\ dockerEnv = "some"
    /\ run.pc = "done"
    /\ run.why = "finished"
    /\ run.ok
    /\ fs[W \o <<NM>>] = "none"
    /\ fs[BREWCACHE] = "dir"
    /\ fs[LIBDD] = "dir"

----------------------------------------------------------------------------
(* The configuration on its own *)

\* The engine at rest: no filesystem object, no scan, no run.
EngineAtRest ==
    /\ fs = [p \in Paths |-> "none"]
    /\ excl = {}
    /\ denied = {}
    /\ items = << >>
    /\ task = << >>
    /\ phase = "idle"
    /\ round = 0
    /\ result = "none"
    /\ fsStart = fs
    /\ rescan = [Nodejs |-> << >>, Python |-> << >>]
    /\ opts = NoOptions
    /\ dockerEnv = "absent"
    /\ sc = IdleScan
    /\ run = IdleRun

\* The exclude lists an earlier run may have saved.
StoredLists ==
    { << >>, << <<"a">> >>, << <<"B", "a">>, <<"a", ",", "Q">> >> }

InitCfg ==
    /\ EngineAtRest
    /\ faulty = {}
    /\ built = IdleBuilt
    /\ typed = IdleTyped
    /\ \E f \in {NoFile} \cup {FileOf(to_string_pretty(l)) : l \in StoredLists} :
          cfg = [IdleCfg EXCEPT !.file = f]

NextCfg ==
    \/ ConfigLoad
    \/ \E value \in Patterns : ConfigAppend(value)
    \/ ConfigSave

SpecCfg == InitCfg /\ [][NextCfg]_vars

Count(ex, value) == Cardinality({i \in 1..Len(ex) : ex[i] = value})

IsPrefixSeq(a, b) == Len(a) <= Len(b) /\ SubSeq(b, 1, Len(a)) = a

\* C11: append_exclude is idempotent.  Whatever the sequence of load,
\* append_exclude and save: no pattern is ever twice in the exclude list, a
\* pattern appended (once or several times) to the Config in hand is in its
\* list exactly once, an append leaves the earlier entries where they were,
\* and the file written by a successful save reads back as the same list.
C11_AppendIdempotent ==
    /\ \A p \in Patterns : Count(cfg.mem, p) <= 1
    /\ \A p \in cfg.appended : Count(cfg.mem, p) = 1
    /\ cfg.last.op = "append" => IsPrefixSeq(cfg.last.before, cfg.mem)
    /\ (cfg.last.op = "save" /\ cfg.last.ok) =>
          from_str(cfg.file.text) = [ok |-> TRUE, exclude |-> cfg.mem]
    /\ (cfg.last.op = "load" /\ cfg.last.ok /\ cfg.file.exists) =>
          to_string_pretty(cfg.mem) = cfg.file.text

\* C11 witness: a pattern holding a comma and a quote was appended a second
\* time, saved and loaded again next to an earlier pattern; it is there once.
C11_Witness ==
    /\ cfg.last.op = "load" /\ cfg.last.ok /\ cfg.file.exists
    /\ cfg.last.before = cfg.mem
    /\ <<"a", ",", "Q">> \in cfg.again
    /\ Count(cfg.mem, <<"a", ",", "Q">>) = 1
    /\ Len(cfg.mem) >= 2
    /\ cfg.mem[Len(cfg.mem)] = <<"a", ",", "Q">>

----------------------------------------------------------------------------
(* ScanReport on its own *)

InitReport ==
    /\ EngineAtRest
    /\ faulty = {}
    /\ cfg = IdleCfg
    /\ built = IdleBuilt
    /\ typed = IdleTyped

NextReport ==
    \/ \E c \in ReportCategories : \E its \in Batches(c) : ReportAddItems(c, its)
    \/ \E cs \in SubsetChoices : ReportSubset(cs)

SpecReport == InitReport /\ [][NextReport]_vars

\* The items the calls of add_items passed for category c, in call order.
RECURSIVE PassedFor(_, _)
PassedFor(calls, c) ==
    IF calls = << >> THEN << >>
    ELSE (IF Head(calls).category = c THEN Head(calls).items ELSE << >>)
         \o PassedFor(Tail(calls), c)

\* One entry per category that add_items was called with, iterated in the
\* order of Category whatever the order of the calls; each entry holds the
\* items of its calls appended in call order; a subset holds exactly the
\* asked categories the report has, with their items.
ReportMapStructure ==
    LET r == built.report
        ks == categories(r)
    IN /\ \A i, j \in 1..Len(ks) : i < j => CategoryRank(ks[i]) < CategoryRank(ks[j])
       /\ Range(ks) = {built.calls[i].category : i \in 1..Len(built.calls)}
       /\ \A c \in DOMAIN r : r[c] = PassedFor(built.calls, c)
       /\ built.sub.made =>
             /\ DOMAIN built.sub.report = Range(built.sub.cs) \cap DOMAIN r
             /\ \A c \in DOMAIN built.sub.report : built.sub.report[c] = r[c]

\* C12: a ScanReport has at most one entry per category, iterated in the
\* canonical order whatever the order of the add_items calls; add_items on
\* an existing category appends; subset(cs) holds exactly the categories in
\* both cs and the report, items unchanged, and its total_size never exceeds
\* the total_size of the report.
C12_ReportMap ==
    /\ ReportMapStructure
    /\ built.sub.made => total_size(built.sub.report) <= total_size(built.report)

----------------------------------------------------------------------------
(* Failures of the deletion engine *)

\* A logged removal whose outcome is neither success nor not-found nor, for
\* a directory, directory-not-empty.
Fatal(e) ==
    \/ e.op = "file" /\ e.out \notin {"ok", "notfound"}
    \/ e.op = "dir" /\ e.out \notin {"ok", "notfound", "notempty"}

\* C13: a removal failure other than not-found (for directories: other than
\* not-found and directory-not-empty) is fatal.  It is the last removal its
\* task attempts and the task ends in error; a failing file removal leaves
\* the task without any directory removal; a task ends in error only on such
\* a failure; and delete_items returns an error when a task ended in error.
C13_FailureIsFatal ==
    /\ \A i \in Tasks :
          LET t == task[i] IN
          /\ \A n \in 1..Len(t.log) :
                Fatal(t.log[n]) =>
                   /\ n = Len(t.log)
                   /\ t.pc = "err"
                   /\ t.log[n].op = "file" =>
                         \A m \in 1..Len(t.log) : t.log[m].op # "dir"
          /\ t.pc = "err" => t.log # << >> /\ Fatal(t.log[Len(t.log)])
    /\ phase \in {"deleted", "rescanned"} =>
          (result = "Err" <=> \E i \in Tasks : task[i].pc = "err")

\* C13 witness: in a directory item the removal of the first collected file
\* was refused; the two other files and the collected directories were never
\* tried and are still there, and delete_items returned the error.
C13_Witness ==
    /\ phase = "deleted"
    /\ result = "Err"
    /\ \E i \in Tasks :
          LET t == task[i] IN
          /\ items[i].kind = "Directory"
          /\ t.pc = "err"
          /\ Len(t.files) = 3
          /\ t.log = <<[op |-> "file", path |-> t.files[1], out |-> "denied"]>>
          /\ \A f \in Range(t.files) : fs[f] = "file"
          /\ Len(t.dirs) >= 3
          /\ \A d \in Range(t.dirs) : fs[d] = "dir"

----------------------------------------------------------------------------
(* Failures of the scan *)

\* C14: when the scan of a filesystem-backed scanner returns an error,
\* run_filesystem_scan returns an error without having started the size
\* pass, and scan_categories returns an error and no report, whatever the
\* other scanners and the docker scan found.
C14_ScannerErrorFailsScan ==
    (opts.cmd \in {"scan", "run"} /\ \E s \in DOMAIN sc.disc : ~sc.disc[s].ok) =>
        /\ sc.fsr.st = "done" =>
              /\ ~sc.fsr.ok
              /\ sc.fsr.sizing = "none"
              /\ sc.fsr.report = EmptyReport
        /\ sc.pc = "returned" => ~sc.ok /\ sc.report = EmptyReport

\* C14 witness: scan_categories has returned an error after the Brew
\* scanner failed, although the Xcode scanner and the docker scan had both
\* returned items.
C14_Witness ==
    /\ sc.pc = "returned"
    /\ ~sc.ok
    /\ "Brew" \in DOMAIN sc.disc /\ ~sc.disc["Brew"].ok
    /\ "Xcode" \in DOMAIN sc.disc
    /\ sc.disc["Xcode"].ok /\ sc.disc["Xcode"].items # << >>
    /\ sc.docker.st = "done" /\ sc.docker.ok /\ sc.docker.items # << >>

\* C15: scan_docker never returns an error and returns at most one item.
\* For every behaviour of the docker CLI the docker scan ends with Ok and
\* either no item or the one aggregate Docker item of non-zero size.
C15_ScanDockerNeverFails ==
    (opts.cmd \in {"scan", "run"} /\ sc.docker.st = "done") =>
        /\ sc.docker.ok
        /\ Len(sc.docker.items) <= 1
        /\ \A i \in 1..Len(sc.docker.items) :
              /\ sc.docker.items[i].category = "Docker"
              /\ sc.docker.items[i].path = DOCKER_SCAN_LABEL
              /\ sc.docker.items[i].size > 0

----------------------------------------------------------------------------
(* The order of the directory removals *)

\* The positions of the directory removals in the log of task t.
DirOps(t) == {j \in 1..Len(t.log) : t.log[j].op = "dir"}

----------------------------------------------------------------------------
(* The size pass *)

\* C17: the size pass never fails because of a per-entry failure.  Whatever
\* has vanished between discovery and sizing, compute_sizes_parallel returns
\* Ok.
C17_SizePassNeverFails == phase # "sizefailed"


\* p lies beneath the item path root, and neither p nor a directory from
\* root down to p is matched by the exclusion set.
Counted(root, p, E) ==
    /\ StrictAncestor(root, p)
    /\ \A a \in Paths : (IsPrefix(root, a) /\ IsPrefix(a, p)) => a \notin E

\* The regular files that count for the size of the directory root.
CountedFiles(f, E, root) ==
    {p \in Paths : f[p] = "file" /\ Counted(root, p, E)}

RECURSIVE SumLen(_)
SumLen(S) ==
    IF S = {} THEN 0
    ELSE LET p == CHOOSE x \in S : TRUE IN FileLen(p) + SumLen(S \ {p})

Min(a, b) == IF a <= b THEN a ELSE b

\* The sizes the size pass has assigned: a Directory item has the sum of the
\* lengths of the regular files beneath it that are not excluded and not
\* under an excluded directory, capped at u64::MAX; a File item has its
\* length.
SizesAssigned ==
    phase = "sized" =>
        \A i \in 1..Len(items) :
            IF items[i].kind = "Directory"
            THEN items[i].size =
                    Min(SizeCap, SumLen(CountedFiles(fs, excl, items[i].path)))
            ELSE items[i].size = FileLen(items[i].path)

\* C18: a Directory item's size is min(2^64-1, sum of the lengths of the
\* unexcluded regular files beneath it), a File item's size is its length,
\* and so an item with non-empty unexcluded content has a size greater than
\* 0.
C18_SizeOfContent ==
    /\ SizesAssigned
    /\ phase = "sized" =>
          \A i \in 1..Len(items) :
              (/\ items[i].kind = "Directory"
               /\ \E p \in Paths : fs[p] # "none" /\ Counted(items[i].path, p, excl))
              => items[i].size > 0

\* C18 as amended: the sizes are as stated, and a Directory item's size is
\* greater than 0 exactly when an unexcluded regular file of non-zero length
\* lies beneath it; empty files, directories and symbolic links beneath it
\* add nothing.
C18_SizeOfFiles ==
    /\ SizesAssigned
    /\ phase = "sized" =>
          \A i \in 1..Len(items) :
              items[i].kind = "Directory" =>
                 (items[i].size > 0 <=>
                     \E p \in CountedFiles(fs, excl, items[i].path) : FileLen(p) > 0)

\* C18 witness: the size pass has run; a Directory item got the capped size
\* because its unexcluded files add up to more, while an excluded file
\* beneath it was left out.
C18_Witness ==
    /\ phase = "sized"
    /\ excl # {}
    /\ \E i \in 1..Len(items) :
          /\ items[i].kind = "Directory"
          /\ items[i].size = SizeCap
          /\ SumLen(CountedFiles(fs, excl, items[i].path)) > SizeCap
          /\ \E p \in excl : fs[p] = "file" /\ StrictAncestor(items[i].path, p)

----------------------------------------------------------------------------
(* The items of a report *)

\* The filesystem items of the report scan_categories returned.
ReportItems == SelectSeq(ItemsOf(sc.report, CategoryALL),
                         LAMBDA it : it.category # "Docker")

\* C19: the items of a report never share subtrees.  For any two distinct
\* items of the returned report, of whatever categories and roots, neither
\* path equals the other or is an ancestor of it.
C19_ItemsDisjoint ==
    (opts.cmd \in {"scan", "run"} /\ sc.pc = "returned" /\ sc.ok) =>
        \A i, j \in 1..Len(ReportItems) :
            i # j => ~IsPrefix(ReportItems[i].path, ReportItems[j].path)

----------------------------------------------------------------------------
(* What the named-directory scanners report *)

NamedScanners == {"Python", "Rust", "Nodejs"}

TargetsOf(s) ==
    CASE s = "Python" -> PYTHON_TARGETS
      [] s = "Rust" -> RUST_TARGETS
      [] s = "Nodejs" -> NODEJS_TARGETS

\* p is a directory at or under the root r whose name is a target, with no
\* excluded path and no other target-named directory from r down to it.
UnnestedTarget(f, E, targets, r, p) ==
    /\ f[r] # "none"
    /\ IsPrefix(r, p)
    /\ f[p] = "dir"
    /\ NameOf(p) \in targets
    /\ \A a \in Paths : (IsPrefix(r, a) /\ IsPrefix(a, p)) => a \notin E
    /\ \A t \in Paths :
          (IsPrefix(r, t) /\ StrictAncestor(t, p)) => NameOf(t) \notin targets

\* C20: a named-directory scanner returns exactly one item per root for
\* each un-nested, unexcluded target directory under that root, however
\* deep it lies, and no other item.
C20_EveryUnnestedTarget ==
    \A s \in NamedScanners \cap DOMAIN sc.disc :
        (opts.cmd = "scan" /\ sc.disc[s].st = "done" /\ sc.disc[s].ok) =>
            \A p \in Paths :
                Occurrences(sc.disc[s].items, p) =
                    Cardinality({i \in 1..Len(opts.roots) :
                        UnnestedTarget(fs, excl, TargetsOf(s), opts.roots[i], p)})

\* C20 as amended: the same, for the target directories that lie at most
\* max_depth = 10 levels below the root; deeper ones are not reported.
C20_WithinMaxDepth ==
    \A s \in NamedScanners \cap DOMAIN sc.disc :
        (opts.cmd = "scan" /\ sc.disc[s].st = "done" /\ sc.disc[s].ok) =>
            \A p \in Paths :
                Occurrences(sc.disc[s].items, p) =
                    Cardinality({i \in 1..Len(opts.roots) :
                        /\ UnnestedTarget(fs, excl, TargetsOf(s), opts.roots[i], p)
                        /\ Len(p) - Len(opts.roots[i]) <= MaxWalkDepth})

\* C20 witness: the Nodejs scanner has reported the node_modules of the
\* workspace and the one 10 levels below it, but neither the .next nested
\* in the former nor the node_modules 11 levels below the root.
C20_Witness ==
    /\ opts.cmd = "scan"
    /\ opts.roots = <<W>>
    /\ "Nodejs" \in DOMAIN sc.disc
    /\ sc.disc["Nodejs"].st = "done" /\ sc.disc["Nodejs"].ok
    /\ fs[W \o <<NM, ".next">>] = "dir"
    /\ fs[Deep(10) \o <<NM>>] = "dir"
    /\ {sc.disc["Nodejs"].items[i].path : i \in 1..Len(sc.disc["Nodejs"].items)}
          = {W \o <<NM>>, Deep(9) \o <<NM>>}

----------------------------------------------------------------------------
(* The deletion plan of execute_run *)

\* The filesystem items of a report, in the order of the categories.
FsItemsOf(rep) ==
    SelectSeq(ItemsOf(rep, CategoryALL), LAMBDA it : it.category # "Docker")

\* C21: once the categories are selected and the deletion is confirmed or
\* assume_yes is given, every filesystem item of the selected categories'
\* reports is handed to delete_items, also when every selected item measured
\* 0 bytes: a run with assume_yes whose selection holds a filesystem item
\* does not end without a call of delete_items on these items.
C21_SelectedItemsAreDeleted ==
    opts.cmd = "run" =>
        /\ run.confirmed =>
              /\ round >= 1
              /\ items = FsItemsOf(subset(sc.report, run.selected))
        /\ (/\ run.pc = "done"
            /\ run.ok
            /\ run.selected # << >>
            /\ opts.assume_yes
            /\ FsItemsOf(subset(sc.report, run.selected)) # << >>) => run.confirmed

----------------------------------------------------------------------------
(* The size field of the items *)

\* The items the discovery tasks returned, flattened in scanner order, as
\* run_filesystem_scan hands them to the size pass.
DiscoveredItems == Flatten(sc.disc, filtered_scanners(sc.cats, opts.current))

\* The size pass has run on the discovered items and the report is built.
Sized == sc.fsr.st = "done" /\ sc.fsr.ok /\ sc.fsr.sizing = "done"

\* The report holds the discovered items, category by category and in
\* their order, with category, path and kind as discovered; a size that was
\* non-zero at discovery is kept, a size of 0 is replaced by the measured
\* size.
SizePassFrame ==
    Sized =>
        /\ DOMAIN sc.fsr.report =
              {DiscoveredItems[i].category : i \in 1..Len(DiscoveredItems)}
        /\ \A c \in DOMAIN sc.fsr.report :
              LET was == SelectSeq(DiscoveredItems, LAMBDA x : x.category = c)
                  now == sc.fsr.report[c]
              IN /\ Len(now) = Len(was)
                 /\ \A i \in 1..Len(now) :
                       /\ now[i].category = was[i].category
                       /\ now[i].path = was[i].path
                       /\ now[i].kind = was[i].kind
                       /\ was[i].size # 0 => now[i].size = was[i].size
                       /\ was[i].size = 0 =>
                             now[i].size = IF now[i].kind = "Directory"
                                           THEN path_size(fs, now[i].path, excl)
                                           ELSE FileLen(now[i].path)

----------------------------------------------------------------------------
(* The categories of a report *)

\* Every item stored under a key carries that category, and no key maps to
\* an empty list.
WellCategorized(rep) ==
    \A c \in DOMAIN rep :
        /\ rep[c] # << >>
        /\ \A i \in 1..Len(rep[c]) : rep[c][i].category = c

\* C23: in the report scan_categories returns, in the report of the
\* filesystem scan it is built from and in the subset execute_run derives
\* from it, each item stored under category c has category c and no
\* category maps to an empty item list.
C23_ItemsUnderTheirCategory ==
    /\ WellCategorized(sc.fsr.report)
    /\ WellCategorized(sc.report)
    /\ WellCategorized(run.plan)

\* A run whose scan returned Nodejs, Brew and Docker items and whose
\* selection Brew, Docker left a plan that is a proper part of the report.
C23_Witness ==
    /\ opts.cmd = "run"
    /\ sc.pc = "returned"
    /\ sc.ok
    /\ {"Nodejs", "Brew", "Docker"} \subseteq DOMAIN sc.report
    /\ run.selected = <<"Brew", "Docker">>
    /\ DOMAIN run.plan = {"Brew", "Docker"}

----------------------------------------------------------------------------
(* Totals *)

\* The sum of the sizes of a list of items, as a number.
RECURSIVE ExactSum(_)
ExactSum(its) ==
    IF its = << >> THEN 0 ELSE Head(its).size + ExactSum(Tail(its))

\* The sum of the sizes of all items of a report, as a number.
RECURSIVE ExactTotal(_, _)
ExactTotal(rep, cs) ==
    IF cs = {} THEN 0
    ELSE LET c == CHOOSE x \in cs : TRUE
         IN ExactSum(rep[c]) + ExactTotal(rep, cs \ {c})

\* C24: the total of a category is the sum of the sizes of its items and
\* the total of a report is the sum of the totals of its categories, for
\* all item sizes up to the largest 64-bit value, also when the sum exceeds
\* that value.
C24_TotalsAreSums ==
    /\ \A c \in DOMAIN built.report :
          SumSizes(built.report[c]) = ExactSum(built.report[c])
    /\ total_size(built.report) = ExactTotal(built.report, DOMAIN built.report)

----------------------------------------------------------------------------
(* The docker cleanup *)

\* The docker branch of execute_run has run.
CleanupRan == opts.cmd = "run" /\ run.docker.st = "done"

\* The commands that were run are the first ones of the fixed order, and
\* none was run after the failing one.
PruneInOrder ==
    CleanupRan =>
        /\ run.log = SubSeq(commands, 1, Len(run.log))
        /\ (run.cli.probe /\ run.cli.fail # 0) => Len(run.log) <= run.cli.fail
        /\ ~run.cli.probe => run.log = << >>

\* C25: run_docker_cleanup runs the five prune steps in the order image,
\* container, volume, network, builder and stops at the first failing step;
\* run_docker_cleanup_with_handling returns Ok only if all five steps
\* succeeded or the tool was unavailable before any step ran, and a failure
\* after the first step has started reaches execute_run as an error.
C25_OnlyAbsenceIsSkipped ==
    /\ PruneInOrder
    /\ CleanupRan =>
          /\ run.docker.ok =>
                \/ run.log = commands /\ run.cli.fail = 0
                \/ run.log = << >>
          /\ (run.cli.probe /\ run.cli.fail # 0 /\ run.log # << >>) =>
                /\ ~run.docker.ok
                /\ (run.pc = "done" /\ run.why = "finished") => ~run.ok

----------------------------------------------------------------------------
(* The category prompt on its own *)

InitPrompt ==
    /\ EngineAtRest
    /\ faulty = {}
    /\ cfg = IdleCfg
    /\ built = IdleBuilt
    /\ typed = IdleTyped

NextPrompt ==
    \/ \E piece \in Pieces : TypePiece(piece)
    \/ ReadLine

SpecPrompt == InitPrompt /\ [][NextPrompt]_vars

\* The name of a category as the user types it.
TypedName(c) ==
    CASE c = "Xcode" -> <<"x", "c", "o", "d", "e">>
      [] c = "Python" -> <<"p", "y", "t", "h", "o", "n">>
      [] c = "Rust" -> <<"r", "u", "s", "t">>
      [] c = "Nodejs" -> <<"n", "o", "d", "e", "j", "s">>
      [] c = "Brew" -> <<"b", "r", "e", "w">>
      [] c = "Docker" -> <<"d", "o", "c", "k", "e", "r">>

\* The tokens of a line: the pieces between commas, without the white space
\* around them, the empty ones left out.
TokensOf(line) ==
    SelectSeq([i \in 1..Len(Split(line)) |-> Trim(Split(line)[i])],
              LAMBDA t : t # << >>)

\* The categories a token stands for: by its number, or by its name
\* whatever the case of its letters.
Meant(tok) ==
    {c \in Range(CategoryALL) :
        \/ \E k \in 1..Len(CategoryALL) : parse_usize(tok) = k /\ CategoryALL[k] = c
        \/ /\ Len(tok) = Len(TypedName(c))
           /\ \A i \in 1..Len(tok) : LowerChar(tok[i]) = TypedName(c)[i]}

\* cats without the repetitions, in the order of the first occurrences
RECURSIVE FirstOccurrences(_)
FirstOccurrences(cats) ==
    IF cats = << >> THEN << >>
    ELSE LET init == FirstOccurrences(SubSeq(cats, 1, Len(cats) - 1))
             last == cats[Len(cats)]
         IN IF last \in Range(init) THEN init ELSE Append(init, last)

\* The selection a line stands for, by its tokens alone.
SelectionOf(line) ==
    LET toks == TokensOf(line)
    IN IF toks = << >> THEN [st |-> "cancelled", cats |-> << >>]
       ELSE IF \E i \in 1..Len(toks) : Meant(toks[i]) = {}
       THEN [st |-> "invalid", cats |-> << >>]
       ELSE [st |-> "ok",
             cats |-> FirstOccurrences([i \in 1..Len(toks) |->
                                          CHOOSE c \in Meant(toks[i]) : TRUE])]

\* C26: prompt_for_categories maps the comma-separated line to the list of
\* the categories its tokens stand for (a number k the k-th of Category::ALL,
\* a name its category, case-insensitively), without duplicates and in the
\* order of the first occurrences; a token that is neither a number in range
\* nor a name makes the selection fail with InvalidCategory; a line without
\* tokens yields Cancelled.
C26_TokensSelect ==
    typed.pc = "read" => typed.res = SelectionOf(typed.line)

\* C26 with the word "all": the line that is "all" (in any case of its
\* letters, white space around it aside) selects every category in the
\* order of Category::ALL; every other line is mapped by its tokens as C26
\* says.
C26_TokensOrAllSelect ==
    typed.pc = "read" =>
        typed.res = IF [i \in 1..Len(Trim(typed.line)) |-> LowerChar(Trim(typed.line)[i])]
                          = <<"a", "l", "l">>
                    THEN [st |-> "ok", cats |-> CategoryALL]
                    ELSE SelectionOf(typed.line)

\* The line "RuSt,6,RuSt" was read as Rust, Docker: a name in mixed case,
\* a number and a repetition.
C26_Witness ==
    /\ typed.pc = "read"
    /\ typed.line = <<"R", "u", "S", "t", ",", "6", ",", "R", "u", "S", "t", "\n">>
    /\ typed.res = [st |-> "ok", cats |-> <<"Rust", "Docker">>]

\* An invalid selection ends the run with an error and nothing deleted.
InvalidSelectionDeletesNothing ==
    (opts.cmd = "run" /\ run.pc = "done" /\ run.why = "invalid") =>
        /\ ~run.ok
        /\ prompt_for_categories(run.input).st = "invalid"
        /\ fs = fsStart
        /\ round = 0
        /\ run.pruned = 0

----------------------------------------------------------------------------
(* The configuration of a command *)

\* No scanner, no docker scan, no size pass, no listing, no deletion and no
\* prune command has run.
NoWorkDone ==
    /\ sc.disc = << >>
    /\ sc.docker.st = "skipped"
    /\ sc.fsr.st = "pending"
    /\ sc.listing = << >>
    /\ phase = "idle"
    /\ round = 0
    /\ fs = fsStart
    /\ run.docker.st = "skipped"
    /\ run.pruned = 0

\* C27: execute_scan and execute_run load the configuration and compile the
\* exclusion matcher before any work; a malformed configuration or an
\* invalid exclude pattern ends the command with the error and without any
\* scanner, size computation or deletion; a missing configuration file is
\* not an error and yields an empty exclusion set.
C27_ConfigurationFirst ==
    /\ sc.pc = "entry" => NoWorkDone
    /\ sc.pc \notin {"entry", "failed"} => cfg.matcher \in {"None", "Some"}
    /\ (cfg.file \in {MalformedFile, BadPatternFile} /\ sc.pc # "entry") =>
          /\ sc.pc = "failed"
          /\ ~sc.ok
          /\ NoWorkDone
          /\ opts.cmd = "run" => run.pc = "done" /\ ~run.ok
    /\ (cfg.file = NoFile /\ sc.pc # "entry") =>
          /\ sc.pc # "failed"
          /\ cfg.mem = << >>
          /\ cfg.matcher = "None"
          /\ excl = {}

\* A run with -y found a configuration whose pattern is no glob and has
\* ended with the error, node_modules in place.
C27_Witness ==
    /\ opts.cmd = "run"
    /\ opts.assume_yes
    /\ cfg.file = BadPatternFile
    /\ cfg.matcher = "Err"
    /\ sc.pc = "failed"
    /\ run.pc = "done"
    /\ ~run.ok
    /\ fs[W \o <<NM>>] = "dir"

----------------------------------------------------------------------------
(* Nested items deleted concurrently *)

\* Item j lies beneath item i.
NestedPair(i, j) == i # j /\ StrictAncestor(items[i].path, items[j].path)

\* No removal of the last call met a failure other than not-found.
OnlyNotFound ==
    \A t \in Tasks : \A k \in 1..Len(task[t].log) :
        task[t].log[k].out \in {"ok", "notfound"}

\* C28: when two nested items are deleted concurrently by delete_items,
\* with no exclusion and no I/O failure other than not-found, then however
\* the walks and removals of the two tasks interleave, delete_items returns
\* Ok and neither item's path exists afterward.
C28_NestedItemsBothRemoved ==
    \A i, j \in 1..Len(items) :
        ( /\ phase = "deleted"
          /\ excl = {}
          /\ NestedPair(i, j)
          /\ OnlyNotFound )
        => /\ result = "Ok"
           /\ fs[items[i].path] = "none"
           /\ fs[items[j].path] = "none"

\* node_modules and the __pycache__ inside it were deleted side by side: the
\* two tasks raced (one found a path already removed by the other), the
\* call returned Ok and both are gone.
C28_Witness ==
    /\ phase = "deleted"
    /\ round = 1
    /\ excl = {}
    /\ Len(items) = 2
    /\ NestedPair(2, 1)
    /\ items[1].size > 0
    /\ fsStart[W \o <<NM, PYC, "f">>] = "file"
    /\ \A t \in Tasks : task[t].log # << >>
    /\ \E t \in Tasks : \E k \in 1..Len(task[t].log) : task[t].log[k].out = "notfound"
    /\ OnlyNotFound
    /\ result = "Ok"
    /\ fs[W \o <<NM>>] = "none"
    /\ fs[W \o <<NM, PYC>>] = "none"

\* Without symbolic links, exclusions and refusals no removal fails with
\* directory-not-empty, whatever the interleaving.
NoLinks == \A p \in Paths : fsStart[p] # "link"

NeverNotEmpty ==
    (excl = {} /\ denied = {} /\ NoLinks) =>
        \A t \in Tasks : \A k \in 1..Len(task[t].log) :
            task[t].log[k].out \in {"ok", "notfound"}

----------------------------------------------------------------------------
(* The docker prune sequence and the confirmed plan *)

\* C29: execute_run runs a docker prune command only when the subset
\* report shown to the user holds a Docker entry; selecting Docker when the
\* scan found nothing reclaimable for Docker, or found the tool unusable,
\* does not prune.
C29_PruneOnlyWhenPlanned ==
    (opts.cmd = "run" /\ run.log # << >>) => "Docker" \in DOMAIN run.plan

----------------------------------------------------------------------------
(* Deletion is confined to the items' subtrees *)

\* The paths task i collected in its walk, or the path of its File item.
Collected(i) ==
    Range(task[i].files) \cup Range(task[i].dirs)
        \cup (IF items[i].kind = "File" THEN {items[i].path} ELSE {})

\* p is the path of item i or an entry its walk found beneath it.
Confined(p, i) == IsPrefix(items[i].path, p) /\ p \in Collected(i)

\* Everything at the target of the link that is not itself part of a listed
\* item is as it was.
TargetUntouched ==
    \A p \in Subtree(fsStart, LinkTarget) :
        (\A i \in 1..Len(items) : ~IsPrefix(items[i].path, p)) => fs[p] = fsStart[p]

\* C30: delete_items and safe_remove_dir_all change the filesystem only at
\* the path of a listed item or at an entry the walk found beneath it: no
\* ancestor and no sibling of an item is removed, nothing is created, and
\* a symbolic link inside a subtree is not followed, so that what lies at
\* its target stays.
C30_DeletionConfined ==
    /\ \A p \in Paths :
          fs[p] # fsStart[p] =>
              /\ Called
              /\ fs[p] = "none"
              /\ \E i \in Tasks : Confined(p, i)
    /\ \A i \in 1..Len(items) : \A p \in Paths :
          StrictAncestor(p, items[i].path) /\ (\A j \in 1..Len(items) : ~IsPrefix(items[j].path, p))
              => fs[p] = fsStart[p]
    /\ (\E p \in Paths : fsStart[p] = "link") => TargetUntouched

\* node_modules, holding a link to the project directory, was deleted
\* alone: its subdirectory is gone, and the project directory and the log
\* file next to node_modules are as they were.
C30_Witness ==
    /\ Finished
    /\ Len(items) = 1
    /\ items[1].path = W \o <<NM>>
    /\ excl = {}
    /\ fsStart[W \o <<NM, "f">>] = "link"
    /\ fsStart[W \o <<NM, "b">>] = "dir"
    /\ fs[W \o <<NM, "b">>] = "none"
    /\ fsStart[W \o <<"cache.log">>] = "file"
    /\ fs[W \o <<"cache.log">>] = "file"
    /\ fs[W] = "dir"

====
